---- MODULE Spec2Model ----
(***************************************************************************)
(* A model of the kernel's block cache (cache.c), I/O layer and pipes      *)
(* (io.c), thread scheduler (thread.c) and KTFS file system (ktfs.c).      *)
(* Each subsystem has its own specification; the variables of the other   *)
(* subsystems stay at their initial values under it.                       *)
(***************************************************************************)
EXTENDS Integers, Sequences, FiniteSets, TLC

(***************************************************************************)
(* Bounds of the model.                                                    *)
(***************************************************************************)
\* number of slots of the block cache (CAPACITY of cache.h, scaled down)
CAPACITY == 2
\* number of blocks of the backing memory device
DiskBlocks == 3
\* block contents are drawn from 0..MaxData
MaxData == 1

NULL == 0

Min(S) == CHOOSE x \in S : \A y \in S : x <= y
Max(S) == CHOOSE x \in S : \A y \in S : x >= y

VARIABLES
    cache,      \* struct cache: head, tail and the fields of every cache_entry
    disk,       \* the backing memory I/O object's buffer, one value per block
    pin,        \* the block pointer the caller got from cache_get_block, or NULL
    wrote,      \* whether the caller overwrote the pinned buffer
    shadow,     \* history: per position, the bytes of its last dirty release
    dirtied,    \* history: the positions that had a dirty release
    mru,        \* history: the positions asked for, most recent first
    cev,        \* history: what the last cache operation did
    open_files, \* ktfs.c: the open-file table
    kexpect,    \* history: per open file, the bytes written through it, by offset
    ksetend,    \* history: per open file, whether SETEND set its size
    kev,        \* history: what the last file system call did
    kops,       \* history: the number of file system calls made
    thrtab,     \* thread.c: the thread table, per thread id
    ready_list, \* thread.c: the ready-to-run list, head first
    wait_list,  \* thread.c: per condition, its list of waiting threads
    TP,         \* thread.c: the running thread (register tp)
    pc,         \* per thread, where in its current call it stands
    halted,     \* "no", "success" (halt_success) or "panic" (failed assert)
    tev,        \* history: what the last scheduler operation did
    pipe,       \* io.c: struct pipe (ring buffer, head, tail, refcounts, lock)
    pcall,      \* per thread, the pipe call it is inside of
    pev,        \* history: what the last pipe call that returned did
    wlog,       \* history: the bytes stored in the ring, in order
    rlog,       \* history: the bytes returned by pipe_read calls, in order
    prog,       \* per thread, the position in its test program
    lock,       \* thread.c: a struct lock (holder, count)
    lheld,      \* history: per thread, its lock_acquire calls not yet matched
    lev,        \* history: what the last lock call did
    sio,        \* io.c: the struct seekio objects, per address
    proctab,    \* process.c: per process slot, whether a process is in it
    iotab,      \* process.c: per process, its table of I/O object pointers
    devio,      \* per device, the reference count of its struct io
    pio,        \* io.c: the struct pipe objects of syspipe, per address
    dev,        \* history: what the last directory or descriptor call did
    ptes,       \* memory.c: per physical page, its entries when used as a table
    ram,        \* memory.c: per physical page, the byte it holds
    free_chunk_list, \* memory.c: the list of chunks of free pages, head first
    satp,       \* the root table of the active address space
    mspaces,    \* the roots of the address spaces of the processes
    mev,        \* history: what the last memory operation did
    fork,       \* process.c: per thread, its process, trap frame and step
    vcall,      \* memory.c: the arguments and the result of a pointer check
    intr,       \* sstatus.SIE and, per thread, the state saved around it
    timer,      \* the sleep list, the alarms, the time and the timer registers
    indirect    \* ktfs.c: per inode, the indirect field of the on-disk inode

cacheVars == <<cache, disk, pin, wrote, shadow, dirtied, mru, cev>>

ktfsVars == <<open_files, kexpect, ksetend, kev, kops>>

threadVars == <<thrtab, ready_list, wait_list, TP, pc, halted, tev>>

pipeVars == <<pipe, pcall, pev, wlog, rlog, prog>>

lockVars == <<lock, lheld, lev>>

\* the I/O objects and the descriptor tables of the system calls
sysVars == <<sio, proctab, iotab, devio, pio, dev>>

\* physical memory and the address spaces
memVars == <<ptes, ram, free_chunk_list, satp, mspaces, mev>>

\* the variables of the subsystems modelled after the pipes
auxVars == <<fork, vcall, intr, timer, indirect>>

extVars == <<lockVars, sysVars, memVars, auxVars>>

\* what the cache's own caller leaves alone
nonCacheVars == <<ktfsVars, threadVars, pipeVars, extVars>>

\* what the file system calls leave alone
nonKtfsVars == <<pin, wrote, shadow, dirtied, mru, cev, threadVars, pipeVars,
                 extVars>>

\* what the scheduler leaves alone
nonThreadVars == <<cacheVars, ktfsVars, pipeVars, extVars>>

\* what the pipe calls leave alone
nonPipeVars == <<cacheVars, ktfsVars, tev, extVars>>

vars == <<cache, disk, pin, wrote, shadow, dirtied, mru, cev,
          open_files, kexpect, ksetend, kev, kops,
          thrtab, ready_list, wait_list, TP, pc, halted, tev,
          pipe, pcall, pev, wlog, rlog, prog, lock, lheld, lev,
          sio, proctab, iotab, devio, pio, dev,
          ptes, ram, free_chunk_list, satp, mspaces, mev,
          fork, vcall, intr, timer, indirect>>

\* no lock is in use
LockIdle ==
    /\ lock = <<>>
    /\ lheld = <<>>
    /\ lev = <<>>

\* no seekable I/O object exists and no system call was made
SysIdle ==
    /\ sio = <<>>
    /\ proctab = <<>>
    /\ iotab = <<>>
    /\ devio = <<>>
    /\ pio = <<>>
    /\ dev = <<>>

\* no memory is managed
MemIdle ==
    /\ ptes = <<>>
    /\ ram = <<>>
    /\ free_chunk_list = <<>>
    /\ satp = 0
    /\ mspaces = {}
    /\ mev = <<>>

\* the subsystems modelled after the pipes are not in use
\* no process forks, no pointer is checked, interrupts are not tracked
AuxIdle ==
    /\ fork = <<>>
    /\ vcall = <<>>
    /\ intr = <<>>
    /\ timer = <<>>
    /\ indirect = <<>>

ExtIdle == LockIdle /\ SysIdle /\ MemIdle /\ AuxIdle

\* the thread manager is not started
ThreadIdle ==
    /\ thrtab = <<>>
    /\ ready_list = <<>>
    /\ wait_list = <<>>
    /\ TP = 0
    /\ pc = <<>>
    /\ halted = "no"
    /\ tev = <<>>

\* no pipe has been created
PipeIdle ==
    /\ pipe = <<>>
    /\ pcall = <<>>
    /\ pev = <<>>
    /\ wlog = <<>>
    /\ rlog = <<>>
    /\ prog = <<>>

\* the file system is not mounted
KtfsIdle ==
    /\ open_files = <<>>
    /\ kexpect = <<>>
    /\ ksetend = <<>>
    /\ kev = <<>>
    /\ kops = 0

(***************************************************************************)
(* The block cache.  Positions are counted in blocks of CACHE_BLKSZ bytes. *)
(* Position DiskBlocks is past the end of the backing device.              *)
(***************************************************************************)
Slots == 1..CAPACITY
Positions == 0..DiskBlocks
Data == 0..MaxData

\* memio_readat of one whole block: fails past the end of the buffer
memio_readat(d, pos) ==
    IF pos \notin DOMAIN d THEN [rc |-> "EINVAL", data |-> 0]
    ELSE [rc |-> "OK", data |-> d[pos]]

\* memio_writeat of one whole block: the new buffer
memio_writeat(d, pos, data) ==
    IF pos \notin DOMAIN d THEN d ELSE [d EXCEPT ![pos] = data]

\* the list built by create_cache: CAPACITY invalid entries, head first
create_cache ==
    [head  |-> 1,
     tail  |-> CAPACITY,
     next  |-> [s \in Slots |-> IF s = CAPACITY THEN NULL ELSE s + 1],
     pos   |-> [s \in Slots |-> 0],
     valid |-> [s \in Slots |-> 0],
     dirty |-> [s \in Slots |-> 0],
     block |-> [s \in Slots |-> 0]]

RECURSIVE CacheWalk(_, _, _)
CacheWalk(c, s, n) ==
    IF s = NULL \/ n = 0 THEN <<>>
    ELSE <<s>> \o CacheWalk(c, c.next[s], n - 1)

\* the entries in list order, as the while (curr != NULL) loops visit them
CacheList(c) == CacheWalk(c, c.head, CAPACITY + 1)

\* a hit branch that leaves cache->tail alone when the tail is the hit
CacheMoveToFrontKeepTail(c, prev, curr) ==
    IF prev = NULL THEN c
    ELSE [c EXCEPT !.next = [c.next EXCEPT ![prev] = c.next[curr],
                                           ![curr] = c.head],
                   !.head = curr]

\* the hit branch of cache_get_block: unlink curr and push it to the head
CacheMoveToFront(c, prev, curr) ==
    IF prev = NULL THEN c
    ELSE [c EXCEPT !.next = [c.next EXCEPT ![prev] = c.next[curr],
                                           ![curr] = c.head],
                   !.tail = IF curr = c.tail THEN prev ELSE c.tail,
                   !.head = curr]

\* the end of cache_get_block: the tail becomes the head
CacheTailToHead(c) ==
    IF c.head = c.tail THEN c
    ELSE LET L == CacheList(c)
             last == L[Len(L) - 1]
         IN  [c EXCEPT !.next = [c.next EXCEPT ![last] = NULL,
                                               ![c.tail] = c.head],
                       !.head = c.tail,
                       !.tail = last]

\* the branch of cache_get_block that fills the first invalid entry, left in place
CacheFillInvalid(c, d, s, pos) ==
    LET r == memio_readat(d, pos)
    IN  IF r.rc # "OK"
        THEN [cache |-> [c EXCEPT !.pos[s] = pos, !.valid[s] = 0],
              disk |-> d, rc |-> r.rc, blk |-> NULL, victim |-> NULL]
        ELSE [cache |-> [c EXCEPT !.pos[s] = pos, !.valid[s] = 1,
                                  !.block[s] = r.data],
              disk |-> d, rc |-> "OK", blk |-> s, victim |-> NULL]

\* the branch of cache_get_block that evicts the tail
CacheEvictTail(c, d, pos) ==
    LET t  == c.tail
        d1 == IF c.dirty[t] = 1 THEN memio_writeat(d, c.pos[t], c.block[t]) ELSE d
        r  == memio_readat(d1, pos)
    IN  IF r.rc # "OK"
        THEN [cache |-> [c EXCEPT !.dirty[t] = 0, !.pos[t] = pos, !.valid[t] = 0],
              disk |-> d1, rc |-> r.rc, blk |-> NULL, victim |-> t]
        ELSE [cache |-> CacheTailToHead(
                          [c EXCEPT !.dirty[t] = 0, !.pos[t] = pos,
                                    !.valid[t] = 1, !.block[t] = r.data]),
              disk |-> d1, rc |-> "OK", blk |-> t, victim |-> t]

\* cache_get_block(cache, pos, pptr): the new cache and device, the result and
\* the block pointer; victim is the entry whose position was replaced
cache_get_block(c, d, pos) ==
    LET L    == CacheList(c)
        hitI == {i \in 1..Len(L) : c.valid[L[i]] = 1 /\ c.pos[L[i]] = pos}
        invI == {i \in 1..Len(L) : c.valid[L[i]] = 0}
    IN  IF hitI # {}
        THEN LET i == Min(hitI)
             IN  [cache |-> CacheMoveToFront(c, IF i = 1 THEN NULL ELSE L[i - 1], L[i]),
                  disk |-> d, rc |-> "OK", blk |-> L[i], victim |-> NULL]
        ELSE IF invI # {}
        THEN CacheFillInvalid(c, d, L[Min(invI)], pos)
        ELSE CacheEvictTail(c, d, pos)

\* a release that clears the dirty flag and writes nothing to the device
CacheWriteThroughLost(c, d, s) ==
    [cache |-> [c EXCEPT !.dirty[s] = 0], disk |-> d]

\* the write-through of cache_release_block(cache, pblk, dirty = 1)
CacheWriteThrough(c, d, s) ==
    [cache |-> [c EXCEPT !.dirty[s] = 0],
     disk  |-> memio_writeat(d, c.pos[s], c.block[s])]

\* cache_release_block(cache, pblk, dirty); the block pointer is the entry
cache_release_block(c, d, pblk, dirty) ==
    LET L == CacheList(c)
        I == {i \in 1..Len(L) : c.valid[L[i]] = 1 /\ L[i] = pblk}
    IN  IF pblk = NULL \/ I = {} \/ dirty = 0
        THEN [cache |-> c, disk |-> d]
        ELSE CacheWriteThrough(c, d, L[Min(I)])

RECURSIVE CacheFlushFrom(_, _, _)
CacheFlushFrom(c, d, L) ==
    IF L = <<>> THEN [cache |-> c, disk |-> d]
    ELSE LET s == Head(L)
         IN  IF c.dirty[s] = 1 /\ c.valid[s] = 1
             THEN CacheFlushFrom([c EXCEPT !.dirty[s] = 0],
                                 memio_writeat(d, c.pos[s], c.block[s]), Tail(L))
             ELSE CacheFlushFrom(c, d, Tail(L))

\* cache_flush(cache)
cache_flush(c, d) == CacheFlushFrom(c, d, CacheList(c))

(***************************************************************************)
(* A single caller of the cache: it gets a block, may overwrite the        *)
(* buffer, and releases it (dirty when it wrote), or flushes.              *)
(***************************************************************************)
NoEvent == [op |-> "none", pos |-> 0, rc |-> "OK", hit |-> FALSE,
            victim |-> 0, vvalid |-> 0]

MruTouch(m, pos) == <<pos>> \o SelectSeq(m, LAMBDA q : q # pos)

InitCache ==
    /\ cache = create_cache
    /\ disk \in [0..(DiskBlocks - 1) -> Data]
    /\ pin = NULL
    /\ wrote = FALSE
    /\ shadow = disk
    /\ dirtied = {}
    /\ mru = <<>>
    /\ cev = NoEvent
    /\ KtfsIdle
    /\ ThreadIdle
    /\ PipeIdle
    /\ ExtIdle

GetBlock(pos) ==
    /\ pin = NULL
    /\ LET r == cache_get_block(cache, disk, pos)
       IN  /\ cache' = r.cache
           /\ disk' = r.disk
           /\ pin' = r.blk
           /\ cev' = [op |-> "get", pos |-> pos, rc |-> r.rc,
                      hit |-> \E s \in Slots : cache.valid[s] = 1 /\ cache.pos[s] = pos,
                      victim |-> IF r.victim = NULL THEN 0 ELSE cache.pos[r.victim],
                      vvalid |-> IF r.victim = NULL THEN 0 ELSE cache.valid[r.victim]]
    /\ wrote' = FALSE
    /\ UNCHANGED <<shadow, dirtied, mru>>
    /\ UNCHANGED nonCacheVars

Overwrite(data) ==
    /\ pin # NULL
    /\ cache.block[pin] # data
    /\ cache' = [cache EXCEPT !.block[pin] = data]
    /\ wrote' = TRUE
    /\ cev' = [NoEvent EXCEPT !.op = "overwrite"]
    /\ UNCHANGED <<disk, pin, shadow, dirtied, mru>>
    /\ UNCHANGED nonCacheVars

ReleaseBlock(dirty) ==
    /\ pin # NULL
    /\ wrote => dirty = 1
    /\ LET r == cache_release_block(cache, disk, pin, dirty)
       IN  /\ cache' = r.cache
           /\ disk' = r.disk
    /\ shadow' = IF dirty = 1 /\ cache.pos[pin] < DiskBlocks
                 THEN [shadow EXCEPT ![cache.pos[pin]] = cache.block[pin]]
                 ELSE shadow
    /\ dirtied' = IF dirty = 1 THEN dirtied \cup {cache.pos[pin]} ELSE dirtied
    /\ pin' = NULL
    /\ wrote' = FALSE
    /\ cev' = [NoEvent EXCEPT !.op = "release", !.pos = cache.pos[pin]]
    /\ UNCHANGED mru
    /\ UNCHANGED nonCacheVars

Flush ==
    /\ pin = NULL
    /\ LET r == cache_flush(cache, disk)
       IN  /\ cache' = r.cache
           /\ disk' = r.disk
    /\ cev' = [NoEvent EXCEPT !.op = "flush"]
    /\ UNCHANGED <<pin, wrote, shadow, dirtied, mru>>
    /\ UNCHANGED nonCacheVars

NextCache ==
    \/ \E pos \in Positions : GetBlock(pos)
    \/ \E data \in Data : Overwrite(data)
    \/ \E dirty \in {0, 1} : ReleaseBlock(dirty)
    \/ Flush

SpecCache == InitCache /\ [][NextCache]_vars

\* one access: cache_get_block(pos), then cache_release_block of the block, clean
Access(pos) ==
    /\ pin = NULL
    /\ LET r == cache_get_block(cache, disk, pos)
           q == cache_release_block(r.cache, r.disk, r.blk, 0)
       IN  /\ cache' = q.cache
           /\ disk' = q.disk
           /\ cev' = [op |-> "get", pos |-> pos, rc |-> r.rc,
                      hit |-> \E s \in Slots : cache.valid[s] = 1 /\ cache.pos[s] = pos,
                      victim |-> IF r.victim = NULL THEN 0 ELSE cache.pos[r.victim],
                      vvalid |-> IF r.victim = NULL THEN 0 ELSE cache.valid[r.victim]]
    /\ mru' = MruTouch(mru, pos)
    /\ UNCHANGED <<pin, wrote, shadow, dirtied>>
    /\ UNCHANGED nonCacheVars

NextLru == \E pos \in Positions : Access(pos)

SpecLru == InitCache /\ [][NextLru]_vars

IndexOf(seq, x) == Min({i \in 1..Len(seq) : seq[i] = x})

\* C1: a successful cache_get_block(pos) returns the bytes of the most recent
\* dirty release of pos (the device's original bytes if there was none), also
\* after pos was evicted and read again, and after cache_flush the device
\* holds those bytes for every position.
C1_ReadAfterWrite ==
    /\ (cev.op = "get" /\ cev.rc = "OK") => cache.block[pin] = shadow[cev.pos]
    /\ (cev.op = "flush") => \A p \in 0..(DiskBlocks - 1) : disk[p] = shadow[p]

\* a get that misses, evicts a valid entry and reads back a position that had
\* a dirty release
C1_Witness ==
    /\ cev.op = "get" /\ cev.rc = "OK" /\ ~cev.hit /\ cev.vvalid = 1
    /\ cev.pos \in dirtied

\* C2: the entry holding p is not the eviction victim unless at least CAPACITY
\* distinct other positions were asked for since the last cache_get_block(p).
C2_LruVictim ==
    (cev.op = "get" /\ cev.vvalid = 1) =>
        IndexOf(mru, cev.victim) - 1 >= CAPACITY

(***************************************************************************)
(* KTFS (ktfs.c) over the block cache.  A block is KTFS_BLKSZ cells; each   *)
(* cell holds one field of an on-disk record or one byte of file data and   *)
(* is ByteBits wide, so block numbers wrap at Word as the uint32_t block    *)
(* numbers of the code wrap at 2^32.  Inodes carry the size, the flags and  *)
(* the direct block pointers; files stay within the direct blocks.          *)
(***************************************************************************)
\* a block has KtfsBlkUnits * KTFS_INOSZ * KTFS_DENSZ cells (KTFS_BLKSZ, scaled down)
KtfsBlkUnits == 1
\* bits of a cell
ByteBits == 4
\* direct block pointers of an inode (scaled down)
KTFS_NUM_DIRECT_DATA_BLOCKS == 2
\* cells of the name of a directory entry (scaled down)
KTFS_MAX_FILENAME_LEN == 1
\* superblock.bitmap_block_count of the mounted image
bitmap_block_count == 1
\* superblock.inode_block_count of the mounted image
inode_block_count == 2
\* blocks of the data region of the mounted image
KtfsDataBlocks == 6
\* entries of the open-file table (scaled down)
MAX_OPEN_FILES == 2
\* file names are 1..MaxName
MaxName == 2
\* ktfs_readat and ktfs_writeat are called at positions 0..KtfsMaxPos
KtfsMaxPos == 1
\* with at most KtfsMaxLen bytes
KtfsMaxLen == 2
\* the caller makes at most KtfsMaxOps file system calls
KtfsMaxOps == 8

Word == 2 ^ ByteBits
KTFS_INOSZ == 2 + KTFS_NUM_DIRECT_DATA_BLOCKS
KTFS_DENSZ == KTFS_MAX_FILENAME_LEN + 1
KTFS_BLKSZ == KtfsBlkUnits * KTFS_INOSZ * KTFS_DENSZ
inodes_per_block == KTFS_BLKSZ \div KTFS_INOSZ
dentries_per_blk == KTFS_BLKSZ \div KTFS_DENSZ

\* ktfs_mount: the region starts
bitmap_start_block == 1
inode_start_block == 1 + bitmap_block_count
data_start_block == 1 + bitmap_block_count + inode_block_count
KtfsBlocks == data_start_block + KtfsDataBlocks
root_directory_inode == 0

ZeroBlock == [i \in 1..KTFS_BLKSZ |-> 0]
ZeroInode == [size |-> 0, flags |-> 0,
              block |-> [i \in 1..KTFS_NUM_DIRECT_DATA_BLOCKS |-> 0]]

\* n cells of a block from offset off (memcpy out of the block)
Cells(blk, off, n) == [i \in 1..n |-> blk[off + i]]

\* a block with the cells from offset off replaced (memcpy into the block)
SetCells(blk, off, seq) ==
    [i \in 1..Len(blk) |->
        IF i > off /\ i <= off + Len(seq) THEN seq[i - off] ELSE blk[i]]

\* struct ktfs_inode from and to its cells
InodeOfCells(c) ==
    [size |-> c[1], flags |-> c[2],
     block |-> [i \in 1..KTFS_NUM_DIRECT_DATA_BLOCKS |-> c[2 + i]]]

CellsOfInode(ino) == <<ino.size, ino.flags>> \o ino.block

\* struct ktfs_dir_entry to its cells: the name first, the inode number last
CellsOfDentry(name, ino) ==
    [i \in 1..KTFS_DENSZ |-> IF i = 1 THEN name ELSE IF i = KTFS_DENSZ THEN ino ELSE 0]

\* (blkno + data_start_block) * KTFS_BLKSZ in uint32_t arithmetic, in blocks
DataPos(blkno) == (((blkno + data_start_block) % Word) + Word) % Word

\* the cache and the device after a cache_get_block result
FsOf(g) == [cache |-> g.cache, disk |-> g.disk]

\* the only element of a one-element set; { e(x) : x \in {v} } names a value
\* that is computed once
Only(S) == CHOOSE y \in S : TRUE

\* get_inode(inode_num, output_inode, delete)
get_inode(fs, inode_num, delete) ==
    LET blk == inode_start_block + (inode_num \div inodes_per_block)
        off == (inode_num % inodes_per_block) * KTFS_INOSZ
    IN  Only({
          IF g.rc # "OK"
          THEN [fs |-> FsOf(g), rc |-> g.rc, inode |-> ZeroInode]
          ELSE [fs |-> cache_release_block(
                         IF delete = 1
                         THEN [g.cache EXCEPT !.block[g.blk] =
                                 SetCells(@, off, CellsOfInode(ZeroInode))]
                         ELSE g.cache,
                         g.disk, g.blk, delete),
                rc |-> "OK",
                inode |-> InodeOfCells(Cells(g.cache.block[g.blk], off, KTFS_INOSZ))]
          : g \in {cache_get_block(fs.cache, fs.disk, blk)} })

\* put_inode(inode_num, input_inode)
put_inode(fs, inode_num, inode) ==
    LET blk == inode_start_block + (inode_num \div inodes_per_block)
        off == (inode_num % inodes_per_block) * KTFS_INOSZ
    IN  Only({
          IF g.rc # "OK"
          THEN [fs |-> FsOf(g), rc |-> g.rc]
          ELSE [fs |-> cache_release_block(
                         [g.cache EXCEPT !.block[g.blk] =
                            SetCells(@, off, CellsOfInode(inode))],
                         g.disk, g.blk, 1),
                rc |-> "OK"]
          : g \in {cache_get_block(fs.cache, fs.disk, blk)} })

\* the directory entries of one block that the scan compares with name: the
\* index of the first match among the first n entries, or -1
DentryMatch(content, n, name) ==
    LET hits == {ei \in 0..(n - 1) : content[ei * KTFS_DENSZ + 1] = name}
    IN  IF hits = {} THEN 0 - 1 ELSE Min(hits)

\* the scan of find_inode_by_name from directory block bi on
RECURSIVE FindScan(_, _, _, _, _)
FindScan(fs, root, name, total, bi) ==
    IF ~(bi < KTFS_NUM_DIRECT_DATA_BLOCKS /\ bi * dentries_per_blk < total)
    THEN [fs |-> fs, rc |-> "ENOENT", inode_num |-> 0]
    ELSE Only({
           IF g.rc # "OK"
           THEN [fs |-> FsOf(g), rc |-> g.rc, inode_num |-> 0]
           ELSE Only({
                  IF ei >= 0
                  THEN [fs |-> cache_release_block(g.cache, g.disk, g.blk, 0),
                        rc |-> "OK",
                        inode_num |-> g.cache.block[g.blk][ei * KTFS_DENSZ + KTFS_DENSZ],
                        found_blk |-> g.blk, found_slot |-> ei,
                        global_idx |-> bi * dentries_per_blk + ei]
                  ELSE FindScan(cache_release_block(g.cache, g.disk, g.blk, 0),
                                root, name, total, bi + 1)
                  : ei \in {DentryMatch(g.cache.block[g.blk],
                                        Min({dentries_per_blk,
                                             total - bi * dentries_per_blk}),
                                        name)} })
           : g \in {cache_get_block(fs.cache, fs.disk, DataPos(root.block[bi + 1]))} })

\* find_inode_by_name(name, inode_num, delete = 0)
find_inode_by_name(fs, name) ==
    Only({
      IF r.rc # "OK"
      THEN [fs |-> r.fs, rc |-> r.rc, inode_num |-> 0]
      ELSE FindScan(r.fs, r.inode, name, r.inode.size \div KTFS_DENSZ, 0)
      : r \in {get_inode(fs, root_directory_inode, 0)} })

\* a free entry of the open-file table; refcnt is the count of the entry's io
ClosedFile == [in_use |-> 0, name |-> 0, inode |-> 0, fsize |-> 0, flags |-> 0,
               refcnt |-> 0]

Fds == 0..(MAX_OPEN_FILES - 1)

\* ktfs_open(name, ioptr): the new table, the result and the entry opened;
\* ioinit1 and the ioaddref of create_seekable_io leave the entry's count at 2
ktfs_open(fs, of, name) ==
    LET empty == {i \in Fds : of[i].in_use = 0}
    IN  IF \E i \in Fds : of[i].in_use = 1 /\ of[i].name = name
        THEN [fs |-> fs, of |-> of, rc |-> "EBUSY", fd |-> 0]
        ELSE IF empty = {}
        THEN [fs |-> fs, of |-> of, rc |-> "EMFILE", fd |-> 0]
        ELSE Only({
               IF f.rc # "OK"
               THEN [fs |-> f.fs, of |-> of, rc |-> f.rc, fd |-> 0]
               ELSE Only({
                      IF g.rc # "OK"
                      THEN [fs |-> g.fs, of |-> of, rc |-> g.rc, fd |-> 0]
                      ELSE [fs |-> g.fs,
                            of |-> [of EXCEPT ![Min(empty)] =
                                      [in_use |-> 1, name |-> name,
                                       inode |-> f.inode_num,
                                       fsize |-> g.inode.size,
                                       flags |-> g.inode.flags,
                                       refcnt |-> 2]],
                            rc |-> "OK", fd |-> Min(empty)]
                      : g \in {get_inode(f.fs, f.inode_num, 0)} })
               : f \in {find_inode_by_name(fs, name)} })

\* ktfs_close(io)
ktfs_close(of, fd) == [of EXCEPT ![fd].in_use = 0]

\* ktfs_get_data_block(inode, file_block_index) for a direct block; the
\* index blocks are outside the model and read as not allocated, (uint32_t)-1
ktfs_get_data_block(inode, file_block_index) ==
    IF file_block_index < KTFS_NUM_DIRECT_DATA_BLOCKS
    THEN inode.block[file_block_index + 1]
    ELSE Word - 1

\* the while loop of ktfs_writeat
RECURSIVE KtfsWriteLoop(_, _, _, _, _, _)
KtfsWriteLoop(fs, inode, pos, buf, len, total_written) ==
    IF total_written >= len
    THEN [fs |-> fs, n |-> total_written, err |-> "OK"]
    ELSE LET curr_offset  == pos + total_written
             block_index  == curr_offset \div KTFS_BLKSZ
             block_offset == curr_offset % KTFS_BLKSZ
             chunk == Min({KTFS_BLKSZ - block_offset, len - total_written})
             curr_block_num == ktfs_get_data_block(inode, block_index)
         IN  IF curr_block_num = Word - 1
             THEN [fs |-> fs, n |-> total_written,
                   err |-> IF total_written > 0 THEN "OK" ELSE "EIO"]
             ELSE Only({
                    IF g.rc # "OK"
                    THEN [fs |-> FsOf(g), n |-> total_written,
                          err |-> IF total_written > 0 THEN "OK" ELSE g.rc]
                    ELSE KtfsWriteLoop(
                           cache_release_block(
                             [g.cache EXCEPT !.block[g.blk] =
                                SetCells(@, block_offset,
                                         SubSeq(buf, total_written + 1,
                                                total_written + chunk))],
                             g.disk, g.blk, 1),
                           inode, pos, buf, len, total_written + chunk)
                    : g \in {cache_get_block(fs.cache, fs.disk,
                                             DataPos(curr_block_num))} })

\* ktfs_writeat(io, pos, buf, len): the bytes written, or the error
ktfs_writeat(fs, file, pos, buf) ==
    IF pos >= file.fsize
    THEN [fs |-> fs, n |-> 0, err |-> "OK"]
    ELSE Only({
           IF g.rc # "OK"
           THEN [fs |-> g.fs, n |-> 0, err |-> g.rc]
           ELSE KtfsWriteLoop(g.fs, g.inode, pos, buf,
                              Min({Len(buf), file.fsize - pos}), 0)
           : g \in {get_inode(fs, file.inode, 0)} })

\* the while loop of ktfs_readat
RECURSIVE KtfsReadLoop(_, _, _, _, _)
KtfsReadLoop(fs, inode, pos, len, out) ==
    IF Len(out) >= len
    THEN [fs |-> fs, n |-> Len(out), err |-> "OK", out |-> out]
    ELSE LET curr_offset  == pos + Len(out)
             block_index  == curr_offset \div KTFS_BLKSZ
             block_offset == curr_offset % KTFS_BLKSZ
             chunk == Min({KTFS_BLKSZ - block_offset, len - Len(out)})
             curr_block_num == ktfs_get_data_block(inode, block_index)
         IN  IF curr_block_num = Word - 1
             THEN KtfsReadLoop(fs, inode, pos, len, out \o [i \in 1..chunk |-> 0])
             ELSE Only({
                    IF g.rc # "OK"
                    THEN [fs |-> FsOf(g), n |-> Len(out),
                          err |-> IF Len(out) > 0 THEN "OK" ELSE g.rc, out |-> out]
                    ELSE KtfsReadLoop(
                           cache_release_block(g.cache, g.disk, g.blk, 0),
                           inode, pos, len,
                           out \o Cells(g.cache.block[g.blk], block_offset, chunk))
                    : g \in {cache_get_block(fs.cache, fs.disk,
                                             DataPos(curr_block_num))} })

\* ktfs_readat(io, pos, buf, len): the bytes read and their number, or the error
ktfs_readat(fs, file, pos, buflen) ==
    IF pos >= file.fsize
    THEN [fs |-> fs, n |-> 0, err |-> "OK", out |-> <<>>]
    ELSE Only({
           IF g.rc # "OK"
           THEN [fs |-> g.fs, n |-> 0, err |-> g.rc, out |-> <<>>]
           ELSE KtfsReadLoop(g.fs, g.inode, pos,
                             Min({buflen, file.fsize - pos}), <<>>)
           : g \in {get_inode(fs, file.inode, 0)} })

\* bit j of a cell
Bit(v, j) == (v \div (2 ^ j)) % 2

\* the first clear bit of a bitmap block as <<cell, bit>>, or <<>> when
\* every cell is 0xFF
FirstClearBit(content) ==
    LET free == {i \in 0..(KTFS_BLKSZ - 1) : content[i + 1] # Word - 1}
    IN  IF free = {} THEN <<>>
        ELSE <<Min(free),
               Min({b \in 0..(ByteBits - 1) : Bit(content[Min(free) + 1], b) = 0})>>

\* find_free_data_block from block bmp_block on: the index of the first clear
\* bit, which it sets, or -1
RECURSIVE FindFreeScan(_, _)
FindFreeScan(fs, bmp_block) ==
    IF bmp_block >= data_start_block
    THEN [fs |-> fs, idx |-> 0 - 1]
    ELSE Only({
           IF g.rc # "OK"
           THEN [fs |-> FsOf(g), idx |-> 0 - 1]
           ELSE Only({
                  IF ij = <<>>
                  THEN FindFreeScan(cache_release_block(g.cache, g.disk, g.blk, 0),
                                    bmp_block + 1)
                  ELSE [fs |-> cache_release_block(
                                 [g.cache EXCEPT !.block[g.blk][ij[1] + 1] =
                                    @ + 2 ^ ij[2]],
                                 g.disk, g.blk, 1),
                        idx |-> (bmp_block - bitmap_start_block)
                                  * (KTFS_BLKSZ * ByteBits) + ij[1] * ByteBits + ij[2]]
                  : ij \in {FirstClearBit(g.cache.block[g.blk])} })
           : g \in {cache_get_block(fs.cache, fs.disk, bmp_block)} })

find_free_data_block(fs) == FindFreeScan(fs, bitmap_start_block)

\* the largest file of the model (16844288 in ktfs_cntl, scaled down)
KtfsMaxSize == KTFS_NUM_DIRECT_DATA_BLOCKS * KTFS_BLKSZ

\* a signed index as a uint32_t
U32(x) == ((x % Word) + Word) % Word

\* the body of the for loop of IOCTL_SETEND once the bitmap bit is taken
SetendBlock(fs, inode, b, data_blk) ==
    IF data_blk = Word - 1
    THEN [fs |-> fs, inode |-> inode, rc |-> "ERR1"]
    ELSE Only({
           IF g.rc # "OK"
           THEN [fs |-> FsOf(g), inode |-> inode, rc |-> g.rc]
           ELSE [fs |-> cache_release_block(
                          [g.cache EXCEPT !.block[g.blk] = ZeroBlock],
                          g.disk, g.blk, 1),
                 inode |-> [inode EXCEPT !.block[b + 1] = data_blk],
                 rc |-> "OK"]
           : g \in {cache_get_block(fs.cache, fs.disk, DataPos(data_blk))} })

\* the for loop of IOCTL_SETEND from file block b on
RECURSIVE SetendLoop(_, _, _, _)
SetendLoop(fs, inode, b, new_blocks) ==
    IF b >= new_blocks
    THEN [fs |-> fs, inode |-> inode, rc |-> "OK"]
    ELSE Only({
           Only({
             IF s.rc # "OK" THEN s
             ELSE SetendLoop(s.fs, s.inode, b + 1, new_blocks)
             : s \in {SetendBlock(f.fs, inode, b, U32(f.idx - data_start_block))} })
           : f \in {find_free_data_block(fs)} })

\* ktfs_cntl(io, IOCTL_SETEND, &new_size)
ktfs_setend(fs, of, fd, new_size) ==
    Only({
      IF g.rc # "OK"
      THEN [fs |-> g.fs, of |-> of, rc |-> g.rc]
      ELSE IF new_size < g.inode.size \/ new_size > KtfsMaxSize
      THEN [fs |-> g.fs, of |-> of, rc |-> "EINVAL"]
      ELSE Only({
             IF l.rc # "OK"
             THEN [fs |-> l.fs, of |-> of, rc |-> l.rc]
             ELSE [fs |-> put_inode(l.fs, of[fd].inode,
                                    [l.inode EXCEPT !.size = new_size]).fs,
                   of |-> [of EXCEPT ![fd].fsize = new_size],
                   rc |-> "OK"]
             : l \in {SetendLoop(g.fs, g.inode,
                                 (g.inode.size + KTFS_BLKSZ - 1) \div KTFS_BLKSZ,
                                 (new_size + KTFS_BLKSZ - 1) \div KTFS_BLKSZ)} })
      : g \in {get_inode(fs, of[fd].inode, 0)} })

\* the first all-zero inode of an inode block, or -1
FirstZeroInode(content) ==
    LET zero == {i \in 0..(inodes_per_block - 1) :
                   Cells(content, i * KTFS_INOSZ, KTFS_INOSZ) = CellsOfInode(ZeroInode)}
    IN  IF zero = {} THEN 0 - 1 ELSE Min(zero)

\* find_free_inode from inode block blk on: the first all-zero inode, or -1
RECURSIVE FindFreeInodeScan(_, _)
FindFreeInodeScan(fs, blk) ==
    IF blk >= data_start_block
    THEN [fs |-> fs, idx |-> 0 - 1]
    ELSE Only({
           IF g.rc # "OK"
           THEN [fs |-> FsOf(g), idx |-> 0 - 1]
           ELSE Only({
                  IF i >= 0
                  THEN [fs |-> cache_release_block(g.cache, g.disk, g.blk, 0),
                        idx |-> (blk - inode_start_block) * inodes_per_block + i]
                  ELSE FindFreeInodeScan(
                         cache_release_block(g.cache, g.disk, g.blk, 0), blk + 1)
                  : i \in {FirstZeroInode(g.cache.block[g.blk])} })
           : g \in {cache_get_block(fs.cache, fs.disk, blk)} })

find_free_inode(fs) == FindFreeInodeScan(fs, inode_start_block)

\* the end of ktfs_create: the entry goes into the pinned directory block,
\* which is released dirty, and the root inode is written with the new size
KtfsCreateFinish(fs, name, root, dir_block, new_inode_num) ==
    LET dentry_index == (root.size % KTFS_BLKSZ) \div KTFS_DENSZ
    IN  Only({
          put_inode(w, root_directory_inode,
                    [root EXCEPT !.size = root.size + KTFS_DENSZ])
          : w \in {cache_release_block(
                     [fs.cache EXCEPT !.block[dir_block] =
                        SetCells(@, dentry_index * KTFS_DENSZ,
                                 CellsOfDentry(name, new_inode_num))],
                     fs.disk, dir_block, 1)} })

\* ktfs_create from the cache_get_block of the directory block on; root is
\* the copy of the root inode with the block pointer to use
KtfsCreateEntry(fs, name, root, direct_block) ==
    Only({
      IF g.rc # "OK"
      THEN [fs |-> FsOf(g), rc |-> g.rc]
      ELSE Only({
             IF fi.idx < 0
             THEN [fs |-> cache_release_block(fi.fs.cache, fi.fs.disk, g.blk, 0),
                   rc |-> "ERR1"]
             ELSE Only({
                    IF p.rc # "OK"
                    THEN [fs |-> cache_release_block(p.fs.cache, p.fs.disk, g.blk, 0),
                          rc |-> p.rc]
                    ELSE KtfsCreateFinish(p.fs, name, root, g.blk, fi.idx)
                    : p \in {put_inode(fi.fs, fi.idx, ZeroInode)} })
             : fi \in {find_free_inode(FsOf(g))} })
      : g \in {cache_get_block(fs.cache, fs.disk,
                               DataPos(root.block[direct_block + 1]))} })

\* ktfs_create from the allocation of a new directory block on
KtfsCreateGrow(fs, name, root, direct_block) ==
    Only({
      IF U32(a.idx) = Word - 1
      THEN [fs |-> a.fs, rc |-> "ERR1"]
      ELSE KtfsCreateEntry(a.fs, name,
                           [root EXCEPT !.block[direct_block + 1] = U32(a.idx)],
                           direct_block)
      : a \in {find_free_data_block(fs)} })

\* ktfs_create(name)
ktfs_create(fs, name) ==
    Only({
      IF f.rc # "ENOENT"
      THEN [fs |-> f.fs, rc |-> "EINVAL"]
      ELSE Only({
             IF r.rc # "OK"
             THEN [fs |-> r.fs, rc |-> r.rc]
             ELSE IF r.inode.size >= KTFS_NUM_DIRECT_DATA_BLOCKS * KTFS_BLKSZ
             THEN [fs |-> r.fs, rc |-> "ERR1"]
             ELSE IF r.inode.size \div KTFS_BLKSZ > 0
                     /\ r.inode.block[(r.inode.size \div KTFS_BLKSZ) + 1] = 0
             THEN KtfsCreateGrow(r.fs, name, r.inode, r.inode.size \div KTFS_BLKSZ)
             ELSE KtfsCreateEntry(r.fs, name, r.inode, r.inode.size \div KTFS_BLKSZ)
             : r \in {get_inode(f.fs, root_directory_inode, 0)} })
      : f \in {find_inode_by_name(fs, name)} })

(***************************************************************************)
(* The mounted file system and its caller.  The image has an empty root     *)
(* directory with one data block; its bitmap has one bit per block of the   *)
(* device, as IOCTL_SETEND reads it, with the bits of the superblock, the   *)
(* bitmap, the inode blocks and the directory block set.                    *)
(***************************************************************************)
Names == 1..MaxName

\* a file system block padded with zero cells
Padded(seq) == [i \in 1..KTFS_BLKSZ |-> IF i <= Len(seq) THEN seq[i] ELSE 0]

\* the value of the bitmap cell whose bit 0 is block base, from bit j on
RECURSIVE BitsValue(_, _, _)
BitsValue(used, base, j) ==
    IF j >= ByteBits THEN 0
    ELSE (IF base + j \in used THEN 2 ^ j ELSE 0) + BitsValue(used, base, j + 1)

\* the image: rflags is the flags field of the root directory inode
KtfsImage(rflags) ==
    [b \in 0..(KtfsBlocks - 1) |->
        IF b = 0
        THEN Padded(<<KtfsBlocks, bitmap_block_count, inode_block_count,
                      root_directory_inode>>)
        ELSE IF b < inode_start_block
        THEN [i \in 1..KTFS_BLKSZ |->
                BitsValue(0..data_start_block,
                          (b - bitmap_start_block) * KTFS_BLKSZ * ByteBits
                            + (i - 1) * ByteBits, 0)]
        ELSE IF b = inode_start_block + (root_directory_inode \div inodes_per_block)
        THEN SetCells(ZeroBlock,
                      (root_directory_inode % inodes_per_block) * KTFS_INOSZ,
                      CellsOfInode([ZeroInode EXCEPT !.flags = rflags]))
        ELSE ZeroBlock]

\* ktfs_mount(io): create_cache and the read of the superblock
ktfs_mount(image) ==
    Only({ cache_release_block(g.cache, g.disk, g.blk, 0)
           : g \in {cache_get_block(create_cache, image, 0)} })

NoKev == [op |-> "none", fd |-> 0, pos |-> 0, len |-> 0, n |-> 0,
          err |-> "OK", out |-> <<>>]

InitKtfs ==
    /\ \E rflags \in {0, 1} : \E m \in {ktfs_mount(KtfsImage(rflags))} :
          /\ cache = m.cache
          /\ disk = m.disk
    /\ open_files = [i \in Fds |-> ClosedFile]
    /\ kexpect = [i \in Fds |-> {}]
    /\ ksetend = [i \in Fds |-> FALSE]
    /\ kev = NoKev
    /\ kops = 0
    /\ pin = NULL
    /\ wrote = FALSE
    /\ shadow = <<>>
    /\ dirtied = {}
    /\ mru = <<>>
    /\ cev = NoEvent
    /\ ThreadIdle
    /\ PipeIdle
    /\ ExtIdle

Fs == [cache |-> cache, disk |-> disk]

KCreate(name) ==
    /\ kops < KtfsMaxOps
    /\ kops' = kops + 1
    /\ \E r \in {ktfs_create(Fs, name)} :
           /\ cache' = r.fs.cache
           /\ disk' = r.fs.disk
           /\ kev' = [NoKev EXCEPT !.op = "create", !.err = r.rc]
    /\ UNCHANGED <<open_files, kexpect, ksetend>>
    /\ UNCHANGED nonKtfsVars

KOpen(name) ==
    /\ kops < KtfsMaxOps
    /\ kops' = kops + 1
    /\ \E r \in {ktfs_open(Fs, open_files, name)} :
           /\ cache' = r.fs.cache
           /\ disk' = r.fs.disk
           /\ open_files' = r.of
           /\ kexpect' = IF r.rc = "OK" THEN [kexpect EXCEPT ![r.fd] = {}] ELSE kexpect
           /\ ksetend' = IF r.rc = "OK" THEN [ksetend EXCEPT ![r.fd] = FALSE] ELSE ksetend
           /\ kev' = [NoKev EXCEPT !.op = "open", !.err = r.rc]
    /\ UNCHANGED nonKtfsVars

KClose(fd) ==
    /\ kops < KtfsMaxOps
    /\ kops' = kops + 1
    /\ open_files[fd].in_use = 1
    /\ open_files' = ktfs_close(open_files, fd)
    /\ kev' = [NoKev EXCEPT !.op = "close"]
    /\ UNCHANGED <<cache, disk, kexpect, ksetend>>
    /\ UNCHANGED nonKtfsVars

KSetend(fd, new_size) ==
    /\ kops < KtfsMaxOps
    /\ kops' = kops + 1
    /\ open_files[fd].in_use = 1
    /\ \E r \in {ktfs_setend(Fs, open_files, fd, new_size)} :
           /\ cache' = r.fs.cache
           /\ disk' = r.fs.disk
           /\ open_files' = r.of
           /\ ksetend' = IF r.rc = "OK" THEN [ksetend EXCEPT ![fd] = TRUE] ELSE ksetend
           /\ kev' = [NoKev EXCEPT !.op = "setend", !.err = r.rc]
    /\ UNCHANGED kexpect
    /\ UNCHANGED nonKtfsVars

KWriteat(fd, pos, buf) ==
    /\ kops < KtfsMaxOps
    /\ kops' = kops + 1
    /\ open_files[fd].in_use = 1
    /\ \E r \in {ktfs_writeat(Fs, open_files[fd], pos, buf)} :
           /\ cache' = r.fs.cache
           /\ disk' = r.fs.disk
           /\ kexpect' = [kexpect EXCEPT ![fd] =
                 {e \in @ : e[1] < pos \/ e[1] >= pos + r.n}
                   \cup {<<pos + i - 1, buf[i]>> : i \in 1..r.n}]
           /\ kev' = [NoKev EXCEPT !.op = "writeat", !.n = r.n, !.err = r.err]
    /\ UNCHANGED <<open_files, ksetend>>
    /\ UNCHANGED nonKtfsVars

KReadat(fd, pos, len) ==
    /\ kops < KtfsMaxOps
    /\ kops' = kops + 1
    /\ open_files[fd].in_use = 1
    /\ \E r \in {ktfs_readat(Fs, open_files[fd], pos, len)} :
           /\ cache' = r.fs.cache
           /\ disk' = r.fs.disk
           /\ kev' = [NoKev EXCEPT !.op = "readat", !.fd = fd, !.pos = pos,
                                   !.len = len, !.n = r.n, !.err = r.err,
                                   !.out = r.out]
    /\ UNCHANGED <<open_files, kexpect, ksetend>>
    /\ UNCHANGED nonKtfsVars

WriteBufs == UNION {[1..n -> Data] : n \in 1..KtfsMaxLen}

NextKtfs ==
    \/ \E name \in Names : KCreate(name)
    \/ \E name \in Names : KOpen(name)
    \/ \E fd \in Fds : KClose(fd)
    \/ \E fd \in Fds, new_size \in {KTFS_BLKSZ \div 2, KTFS_BLKSZ} : KSetend(fd, new_size)
    \/ \E fd \in Fds, pos \in 0..KtfsMaxPos, buf \in WriteBufs : KWriteat(fd, pos, buf)
    \/ \E fd \in Fds, pos \in 0..KtfsMaxPos, len \in 1..KtfsMaxLen : KReadat(fd, pos, len)

SpecKtfs == InitKtfs /\ [][NextKtfs]_vars

\* C3: once SETEND has set the size of an open file, a read of a range inside
\* the file returns the whole range, and every byte of it that was written
\* through this open file reads back as last written, whatever was written
\* to other ranges or other files in between.
C3_FileReadAfterWrite ==
    (/\ kev.op = "readat"
     /\ ksetend[kev.fd]
     /\ kev.pos + kev.len <= open_files[kev.fd].fsize)
    => /\ kev.err = "OK"
       /\ kev.n = kev.len
       /\ \A e \in kexpect[kev.fd] :
            (e[1] >= kev.pos /\ e[1] < kev.pos + kev.len)
            => kev.out[e[1] - kev.pos + 1] = e[2]

(***************************************************************************)
(* The thread scheduler (thread.c).  The kernel is cooperative: a thread   *)
(* leaves the processor only in running_thread_suspend, and an interrupt   *)
(* handler only calls condition_broadcast.  thrtab[t] is an empty slot     *)
(* (used = FALSE) or the fields of the struct thread; a thread list is the *)
(* sequence of the thread ids linked by list_next.                         *)
(***************************************************************************)
\* size of the thread table (NTHR of thread.c, scaled down)
NTHR == 4
\* number of conditions that devices and interrupt handlers signal
NDEV == 1
\* thread_join is called with a thread id in JoinLow..NTHR
JoinLow == 0 - 1

MAIN_TID == 0
IDLE_TID == NTHR - 1

Tids == 0..(NTHR - 1)

\* a NULL struct thread pointer
NOTHR == 0 - 1

\* a NULL struct condition pointer
NoCond == <<>>

\* the condition child_exit of thread t
child_exit(t) == <<"child_exit", t>>

\* the conditions of drivers and alarms, broadcast by interrupt handlers
DevConds == {<<"dev", i>> : i \in 1..NDEV}

\* the conditions of a pipe and of its lock
PipeConds == {<<"can_read", 0>>, <<"can_write", 0>>, <<"released", 0>>}

\* the condition done that process_fork allocates when thread p forks
done(p) == <<"done", p>>

\* the condition of the alarm that thread t sleeps on
al_cond(t) == <<"alarm", t>>

Conds == {child_exit(t) : t \in Tids} \cup DevConds \cup PipeConds
             \cup {done(t) : t \in Tids} \cup {al_cond(t) : t \in Tids}

\* thrtab[tid] == NULL
FreeSlot == [used |-> FALSE, state |-> "UNINITIALIZED", parent |-> NOTHR,
             wait_cond |-> NoCond]

\* the scheduler's state, as the operators below pass it on
K == [thrtab |-> thrtab, ready_list |-> ready_list, wait_list |-> wait_list,
      TP |-> TP, halted |-> halted]

InList(t, list) == \E i \in 1..Len(list) : list[i] = t

ListSet(list) == {list[i] : i \in 1..Len(list)}

set_thread_state(k, t, s) == [k EXCEPT !.thrtab[t].state = s]

\* tlinsert(list, thr): thr becomes the tail
tlinsert(list, thr) == IF thr = NOTHR THEN list ELSE Append(list, thr)

\* tlremove(list): the head, or NULL
tlremove(list) ==
    IF list = <<>> THEN [thr |-> NOTHR, list |-> list]
    ELSE [thr |-> Head(list), list |-> Tail(list)]

\* a tlappend that puts l1's threads in front of l0's
tlappend_front(l0, l1) == [l0 |-> l1 \o l0, l1 |-> <<>>]

\* tlappend(l0, l1): l1's threads go to the end of l0, and l1 is cleared
tlappend(l0, l1) == [l0 |-> l0 \o l1, l1 |-> <<>>]

\* a broadcast that wakes only the first waiter
condition_signal_one(k, cond) ==
    Only({ [k EXCEPT
              !.ready_list = tlinsert(@, r.thr),
              !.wait_list[cond] = r.list,
              !.thrtab = [t \in Tids |->
                  IF t = r.thr
                  THEN [k.thrtab[t] EXCEPT !.state = "READY",
                                           !.wait_cond = NoCond]
                  ELSE k.thrtab[t]]]
           : r \in {tlremove(k.wait_list[cond])} })

\* condition_broadcast(cond)
condition_broadcast(k, cond) ==
    Only({ [k EXCEPT
              !.ready_list = a.l0,
              !.wait_list[cond] = a.l1,
              !.thrtab = [t \in Tids |->
                  IF InList(t, a.l0) /\ k.thrtab[t].wait_cond = cond
                  THEN [k.thrtab[t] EXCEPT !.state = "READY",
                                           !.wait_cond = NoCond]
                  ELSE k.thrtab[t]]]
           : a \in {tlappend(k.ready_list, k.wait_list[cond])} })

\* a condition_wait that queues the caller and leaves its state alone
condition_wait_nostate(k, cond) ==
    IF k.thrtab[k.TP].state # "RUNNING"
    THEN [k EXCEPT !.halted = "panic"]
    ELSE [k EXCEPT !.thrtab[k.TP].wait_cond = cond,
                   !.wait_list[cond] = tlinsert(@, k.TP)]

\* condition_wait(cond) up to restore_interrupts; its last statement, the
\* call of running_thread_suspend, is the thread's next step
condition_wait(k, cond) ==
    IF k.thrtab[k.TP].state # "RUNNING"
    THEN [k EXCEPT !.halted = "panic"]
    ELSE [k EXCEPT !.thrtab[k.TP].state = "WAITING",
                   !.thrtab[k.TP].wait_cond = cond,
                   !.wait_list[cond] = tlinsert(@, k.TP)]

\* running_thread_suspend: the switch to the head of the ready list
SuspendSwitch(q) ==
    Only({ Only({ [q EXCEPT !.ready_list = r.list,
                            !.thrtab[s].state = "RUNNING",
                            !.TP = s]
                  : s \in {IF r.thr = NOTHR THEN IDLE_TID ELSE r.thr} })
           : r \in {tlremove(q.ready_list)} })

\* a running_thread_suspend that puts every thread back on the ready list
running_thread_suspend_requeue(k) ==
    SuspendSwitch([k EXCEPT !.thrtab[k.TP].state = "READY",
                            !.ready_list = tlinsert(@, k.TP)])

\* a running_thread_suspend that queues the caller and leaves its state alone
running_thread_suspend_nostate(k) ==
    SuspendSwitch(IF k.thrtab[k.TP].state = "RUNNING"
                  THEN [k EXCEPT !.ready_list = tlinsert(@, k.TP)]
                  ELSE k)

\* running_thread_suspend().  The thread resumed finds itself RUNNING, so
\* the thread_reclaim after _thread_swtch is never taken.
running_thread_suspend(k) ==
    SuspendSwitch(IF k.thrtab[k.TP].state = "RUNNING"
                  THEN [k EXCEPT !.thrtab[k.TP].state = "READY",
                                 !.ready_list = tlinsert(@, k.TP)]
                  ELSE k)

\* create_thread: the first free slot after MAIN_TID, or NULL; mem tells
\* whether kcalloc and alloc_phys_page succeed
create_thread(k, mem) ==
    Only({ IF free = {} \/ ~mem
           THEN [k |-> k, tid |-> NOTHR]
           ELSE [k |-> [k EXCEPT
                          !.thrtab[Min(free)] =
                              [used |-> TRUE, state |-> "UNINITIALIZED",
                               parent |-> k.TP, wait_cond |-> NoCond],
                          !.wait_list[child_exit(Min(free))] = <<>>],
                 tid |-> Min(free)]
           : free \in {{t \in 1..(NTHR - 1) : ~k.thrtab[t].used}} })

\* thread_spawn(name, entry, ...)
thread_spawn(k, mem) ==
    Only({ IF c.tid = NOTHR
           THEN [k |-> k, rc |-> "EMTHR", ret |-> 0]
           ELSE [k |-> [c.k EXCEPT !.thrtab[c.tid].state = "READY",
                                   !.ready_list = tlinsert(@, c.tid)],
                 rc |-> "OK", ret |-> c.tid]
           : c \in {create_thread(k, mem)} })

\* thread_reclaim(tid)
thread_reclaim(k, tid) ==
    IF ~(0 < tid /\ tid < NTHR) THEN [k EXCEPT !.halted = "panic"]
    ELSE IF ~k.thrtab[tid].used \/ k.thrtab[tid].state # "EXITED"
    THEN [k EXCEPT !.halted = "panic"]
    ELSE [k EXCEPT !.thrtab =
            [c \in Tids |->
                IF c = tid THEN FreeSlot
                ELSE IF c >= 1 /\ k.thrtab[c].used /\ k.thrtab[c].parent = tid
                THEN [k.thrtab[c] EXCEPT !.parent = k.thrtab[tid].parent]
                ELSE k.thrtab[c]]]

\* thread_exit() of a thread other than main
thread_exit(k) ==
    Only({ running_thread_suspend(
               IF e.thrtab[e.TP].parent # NOTHR
               THEN condition_broadcast(e, child_exit(e.TP))
               ELSE e)
           : e \in {set_thread_state(k, k.TP, "EXITED")} })

\* thread_join(tid), tid # 0, up to its return or its condition_wait
thread_join(k, tid) ==
    IF tid < 0 \/ tid >= NTHR
    THEN [k |-> k, rc |-> "EINVAL", wait |-> FALSE]
    ELSE IF ~k.thrtab[tid].used \/ k.thrtab[tid].parent # k.TP
    THEN [k |-> k, rc |-> "EINVAL", wait |-> FALSE]
    ELSE IF k.thrtab[tid].state = "EXITED"
    THEN [k |-> thread_reclaim(k, tid), rc |-> "OK", wait |-> FALSE]
    ELSE [k |-> condition_wait(k, child_exit(tid)), rc |-> "OK",
          wait |-> TRUE]

\* the children of the running thread, as the loops of thread_join(0) see them
ChildrenOf(k) ==
    {i \in 1..(NTHR - 1) : k.thrtab[i].used /\ k.thrtab[i].parent = k.TP}

\* thread_join(0): one round of its loop, up to its return or its
\* condition_wait on the first child that has not exited
thread_join_any(k) ==
    Only({ Only({
        IF exited # {}
        THEN [k |-> thread_reclaim(k, Min(exited)), rc |-> "OK",
              ret |-> Min(exited), wait |-> FALSE]
        ELSE IF children = {}
        THEN [k |-> k, rc |-> "EINVAL", ret |-> 0, wait |-> FALSE]
        ELSE [k |-> condition_wait(k, child_exit(Min(children))),
              rc |-> "OK", ret |-> Min(children), wait |-> TRUE]
        : exited \in {{i \in children : k.thrtab[i].state = "EXITED"}} })
        : children \in {ChildrenOf(k)} })

PcRun == [at |-> "run", next |-> "run", arg |-> 0]

NoTev == [op |-> "none", t |-> 0, arg |-> 0, rc |-> "OK", ret |-> 0,
          blocked |-> FALSE, cond |-> NoCond, W |-> {},
          cused |-> FALSE, cparent |-> NOTHR, cstate |-> "UNINITIALIZED"]

\* a thrmgr_init that leaves the idle thread off the ready list
InitK_noidle ==
    [thrtab |-> [t \in Tids |->
          IF t = MAIN_TID
          THEN [used |-> TRUE, state |-> "RUNNING", parent |-> NOTHR,
                wait_cond |-> NoCond]
          ELSE IF t = IDLE_TID
          THEN [used |-> TRUE, state |-> "READY", parent |-> MAIN_TID,
                wait_cond |-> NoCond]
          ELSE FreeSlot],
     ready_list |-> <<>>,
     wait_list |-> [c \in Conds |-> <<>>],
     TP |-> MAIN_TID,
     halted |-> "no"]

\* thrmgr_init: main runs, idle is ready and is main's child
InitK ==
    [thrtab |-> [t \in Tids |->
          IF t = MAIN_TID
          THEN [used |-> TRUE, state |-> "RUNNING", parent |-> NOTHR,
                wait_cond |-> NoCond]
          ELSE IF t = IDLE_TID
          THEN [used |-> TRUE, state |-> "READY", parent |-> MAIN_TID,
                wait_cond |-> NoCond]
          ELSE FreeSlot],
     ready_list |-> <<IDLE_TID>>,
     wait_list |-> [c \in Conds |-> <<>>],
     TP |-> MAIN_TID,
     halted |-> "no"]

\* the cache and the file system are not in use
CacheIdle ==
    /\ cache = create_cache
    /\ disk = [b \in 0..(DiskBlocks - 1) |-> 0]
    /\ pin = NULL
    /\ wrote = FALSE
    /\ shadow = <<>>
    /\ dirtied = {}
    /\ mru = <<>>
    /\ cev = NoEvent
    /\ KtfsIdle

InitThread ==
    /\ thrtab = InitK.thrtab
    /\ ready_list = InitK.ready_list
    /\ wait_list = InitK.wait_list
    /\ TP = InitK.TP
    /\ halted = InitK.halted
    /\ pc = [t \in Tids |-> PcRun]
    /\ tev = NoTev
    /\ CacheIdle
    /\ PipeIdle
    /\ ExtIdle

SetK(k) ==
    /\ thrtab' = k.thrtab
    /\ ready_list' = k.ready_list
    /\ wait_list' = k.wait_list
    /\ TP' = k.TP
    /\ halted' = k.halted

\* the running thread is between two calls
CanCall == halted = "no" /\ TP # IDLE_TID /\ pc[TP].at = "run"

\* what thread_join's caller can know of thrtab[tid] at the call
JoinTev(tid, rc, ret, blocked) ==
    [NoTev EXCEPT !.op = "join", !.t = TP, !.arg = tid, !.rc = rc,
                  !.ret = ret, !.blocked = blocked,
                  !.cused = IF tid \in Tids THEN thrtab[tid].used ELSE FALSE,
                  !.cparent = IF tid \in Tids THEN thrtab[tid].parent
                              ELSE NOTHR,
                  !.cstate = IF tid \in Tids THEN thrtab[tid].state
                             ELSE "UNINITIALIZED"]

Spawn(mem) ==
    /\ CanCall
    /\ \E r \in {thread_spawn(K, mem)} :
          /\ SetK(r.k)
          /\ pc' = IF r.rc = "OK" THEN [pc EXCEPT ![r.ret] = PcRun] ELSE pc
          /\ tev' = [NoTev EXCEPT !.op = "spawn", !.t = TP, !.rc = r.rc,
                                  !.ret = r.ret]
    /\ UNCHANGED nonThreadVars

Yield ==
    /\ CanCall
    /\ SetK(running_thread_suspend(K))
    /\ tev' = [NoTev EXCEPT !.op = "yield", !.t = TP]
    /\ UNCHANGED <<pc, nonThreadVars>>

\* thread_join(tid), tid # 0: the call
Join(tid) ==
    /\ CanCall
    /\ tid # 0
    /\ \E r \in {thread_join(K, tid)} :
          /\ SetK(r.k)
          /\ pc' = IF r.wait
                   THEN [pc EXCEPT ![TP] = [at |-> "cw", next |-> "join",
                                            arg |-> tid]]
                   ELSE pc
          /\ tev' = IF r.wait
                    THEN [NoTev EXCEPT !.op = "join_wait", !.t = TP,
                                       !.arg = tid]
                    ELSE JoinTev(tid, r.rc, tid, FALSE)
    /\ UNCHANGED nonThreadVars

\* thread_join(tid), tid # 0: after condition_wait has returned
JoinFinish ==
    /\ halted = "no"
    /\ pc[TP].at = "join"
    /\ SetK(thread_reclaim(K, pc[TP].arg))
    /\ pc' = [pc EXCEPT ![TP] = PcRun]
    /\ tev' = JoinTev(pc[TP].arg, "OK", pc[TP].arg, TRUE)
    /\ UNCHANGED nonThreadVars

\* thread_join(0): the call (at "run") or the next round of its loop
JoinAny ==
    /\ halted = "no"
    /\ TP # IDLE_TID
    /\ pc[TP].at \in {"run", "join0"}
    /\ \E r \in {thread_join_any(K)} :
          /\ SetK(r.k)
          /\ pc' = [pc EXCEPT ![TP] =
                      IF r.wait
                      THEN [at |-> "cw", next |-> "join0", arg |-> r.ret]
                      ELSE PcRun]
          /\ tev' = IF r.wait
                    THEN [NoTev EXCEPT !.op = "join0_wait", !.t = TP,
                                       !.arg = r.ret]
                    ELSE [NoTev EXCEPT !.op = "join0", !.t = TP,
                             !.rc = r.rc, !.ret = r.ret,
                             !.blocked = (pc[TP].at = "join0"),
                             !.W = ChildrenOf(K)]
    /\ UNCHANGED nonThreadVars

\* condition_wait(c) on a device's condition, up to restore_interrupts
Wait(c) ==
    /\ CanCall
    /\ SetK(condition_wait(K, c))
    /\ pc' = [pc EXCEPT ![TP] = [at |-> "cw", next |-> "run", arg |-> 0]]
    /\ tev' = [NoTev EXCEPT !.op = "wait", !.t = TP, !.cond = c]
    /\ UNCHANGED nonThreadVars

\* the running_thread_suspend that ends condition_wait
Suspend ==
    /\ halted = "no"
    /\ pc[TP].at = "cw"
    /\ SetK(running_thread_suspend(K))
    /\ pc' = [pc EXCEPT ![TP] = [at |-> @.next, next |-> "run",
                                 arg |-> @.arg]]
    /\ tev' = [NoTev EXCEPT !.op = "suspend", !.t = TP]
    /\ UNCHANGED nonThreadVars

\* condition_broadcast(c) called by the running thread
Broadcast(c) ==
    /\ CanCall
    /\ SetK(condition_broadcast(K, c))
    /\ tev' = [NoTev EXCEPT !.op = "broadcast", !.t = TP, !.cond = c,
                            !.W = ListSet(wait_list[c])]
    /\ UNCHANGED <<pc, nonThreadVars>>

\* an interrupt handler (uart, viorng, vioblk, timer) calls
\* condition_broadcast(c) while thread TP is interrupted
Interrupt(c) ==
    /\ halted = "no"
    /\ SetK(condition_broadcast(K, c))
    /\ tev' = [NoTev EXCEPT !.op = "isr", !.t = TP, !.cond = c,
                            !.W = ListSet(wait_list[c])]
    /\ UNCHANGED <<pc, nonThreadVars>>

\* thread_exit(): main halts the machine, another thread never runs again
Exit ==
    /\ CanCall
    /\ IF TP = MAIN_TID
       THEN /\ halted' = "success"
            /\ UNCHANGED <<thrtab, ready_list, wait_list, TP>>
       ELSE SetK(thread_exit(K))
    /\ tev' = [NoTev EXCEPT !.op = "exit", !.t = TP]
    /\ UNCHANGED <<pc, nonThreadVars>>

\* idle_thread_func: yield while there are threads ready to run
IdleYield ==
    /\ halted = "no"
    /\ TP = IDLE_TID
    /\ pc[TP].at = "run"
    /\ ready_list # <<>>
    /\ SetK(running_thread_suspend(K))
    /\ tev' = [NoTev EXCEPT !.op = "yield", !.t = TP]
    /\ UNCHANGED <<pc, nonThreadVars>>

NextThread ==
    \/ \E mem \in BOOLEAN : Spawn(mem)
    \/ Yield
    \/ \E tid \in JoinLow..NTHR : Join(tid)
    \/ JoinFinish
    \/ JoinAny
    \/ \E c \in DevConds : Wait(c)
    \/ Suspend
    \/ \E c \in DevConds : Broadcast(c)
    \/ \E c \in DevConds : Interrupt(c)
    \/ Exit
    \/ IdleYield

SpecThread == InitThread /\ [][NextThread]_vars

\* C8: thread_join(tid) of a named thread returns tid exactly for a child
\* of the caller that has reached EXITED, and frees its slot then; while the
\* child is in another state the caller stays WAITING inside the call, and
\* once the child has exited the caller is no longer WAITING; the call
\* returns EINVAL exactly when tid is out of range, thrtab[tid] is empty or
\* the thread is not a child of the caller; thread_reclaim's assertions
\* never fail.
C8_JoinNamedChild ==
    /\ halted # "panic"
    /\ (tev.op = "join") =>
          /\ (tev.rc = "EINVAL") <=>
                (tev.arg \notin Tids \/ ~tev.cused \/ tev.cparent # tev.t)
          /\ (tev.rc = "OK") =>
                /\ tev.ret = tev.arg
                /\ tev.cstate = "EXITED"
                /\ ~thrtab[tev.arg].used
    /\ \A p \in Tids :
          (/\ thrtab[p].used
           /\ \/ pc[p].at = "join"
              \/ (pc[p].at = "cw" /\ pc[p].next = "join"))
          => /\ thrtab[pc[p].arg].used
             /\ thrtab[pc[p].arg].parent = p
             /\ (thrtab[p].state = "WAITING")
                   <=> (thrtab[pc[p].arg].state # "EXITED")

\* a thread_join(tid) that blocked has returned tid
C8_Witness ==
    /\ tev.op = "join"
    /\ tev.rc = "OK"
    /\ tev.blocked
    /\ tev.t # MAIN_TID

\* C9: a thread inside thread_join(0) is not left WAITING once one of its
\* children has reached EXITED (it is woken as soon as any child exits,
\* whatever its other children do); thread_join(0) returns the id of an
\* exited child, and EINVAL only when the caller has no children.
C9_JoinAnyChild ==
    /\ \A p \in Tids :
          (/\ thrtab[p].used
           /\ thrtab[p].state = "WAITING"
           /\ \/ pc[p].at = "join0"
              \/ (pc[p].at = "cw" /\ pc[p].next = "join0"))
          => \A c \in 1..(NTHR - 1) :
                (thrtab[c].used /\ thrtab[c].parent = p)
                => thrtab[c].state # "EXITED"
    /\ (tev.op = "join0" /\ tev.rc = "EINVAL") => tev.W = {}
    /\ (tev.op = "join0" /\ tev.rc = "OK") =>
          (tev.ret \in tev.W /\ ~thrtab[tev.ret].used)

\* C10: condition_broadcast(k), called by a thread or by an interrupt
\* handler, leaves every thread that was on k's wait list READY, with
\* wait_cond NULL and on the ready list, leaves k's wait list empty and
\* changes the state of no other thread.
C10_BroadcastWakesAll ==
    [][(tev'.op \in {"broadcast", "isr"}) =>
          /\ \A t \in ListSet(wait_list[tev'.cond]) :
                /\ thrtab'[t].state = "READY"
                /\ thrtab'[t].wait_cond = NoCond
                /\ InList(t, ready_list')
          /\ wait_list'[tev'.cond] = <<>>
          /\ \A t \in Tids \ ListSet(wait_list[tev'.cond]) :
                thrtab'[t] = thrtab[t]
          /\ \A c \in Conds \ {tev'.cond} : wait_list'[c] = wait_list[c]
      ]_vars

\* an interrupt handler's broadcast found two waiters
C10_Witness ==
    /\ tev.op = "isr"
    /\ Cardinality(tev.W) >= 2
    /\ \A t \in tev.W : thrtab[t].state = "READY"


(***************************************************************************)
(* Pipes (io.c).  A pipe call runs from its entry, or from the point where *)
(* the scheduler resumes it, to its return or to its next condition_wait:  *)
(* no other thread runs in between, and no interrupt handler touches a     *)
(* pipe.  A resumed call takes the lock again and re-tests its loop        *)
(* conditions, as the code after condition_wait does.                      *)
(***************************************************************************)
\* size of the ring buffer in bytes (PIPE_BUFSZ of io.c, scaled down)
PIPE_BUFSZ == 3
\* the pipe_write calls are given at most PipeMaxBytes bytes in all
PipeMaxBytes == 4

\* what alloc_phys_page may have left in a byte of the page
JunkBytes == {0, 1}

can_read == <<"can_read", 0>>
can_write == <<"can_write", 0>>
released == <<"released", 0>>

\* create_pipe(wioptr, rioptr); junk is what alloc_phys_page left in the page
create_pipe(junk) ==
    [buf |-> [i \in 1..PIPE_BUFSZ |-> junk], head |-> 0, tail |-> 0, refcnt_r |-> 1, refcnt_w |-> 1,
     lock |-> [holder |-> NOTHR, count |-> 0]]

\* pipe_read: pipe->head == pipe->tail
PipeEmpty(p) == p.head = p.tail

\* a full test that forgets to wrap around
PipeFullNoWrap(p) == (p.tail + 1) = p.head

\* pipe_write: ((pipe->tail + 1) % PIPE_BUFSZ) == pipe->head
PipeFull(p) == ((p.tail + 1) % PIPE_BUFSZ) = p.head

\* an end-of-stream test that looks at the wrong reference count
PipeReadEofWrongEnd(p) == p.refcnt_r = 0

\* pipe_read: pipe->refcnt_w == 0
PipeReadEof(p) == p.refcnt_w = 0

\* the bytes between head and tail, oldest first
RingBytes(p) ==
    [i \in 1..((p.tail - p.head + PIPE_BUFSZ) % PIPE_BUFSZ) |->
        p.buf[((p.head + i - 1) % PIPE_BUFSZ) + 1]]

\* a lock_acquire that does not wait for the holder
lock_acquire_nowait(s) ==
    IF s.p.lock.holder = s.k.TP
    THEN [s EXCEPT !.p.lock.count = @ + 1]
    ELSE [s EXCEPT !.p.lock = [holder |-> s.k.TP, count |-> 1]]

\* a lock_release that frees the lock whatever its count
lock_release_once(s) ==
    IF s.p.lock.holder # s.k.TP THEN s
    ELSE [s EXCEPT !.p.lock = [holder |-> NOTHR, count |-> 0],
                   !.k = condition_broadcast(s.k, released)]

\* a lock_release that frees the lock without waking the waiters
lock_release_nowake(s) ==
    IF s.p.lock.holder # s.k.TP THEN s
    ELSE IF s.p.lock.count - 1 = 0
    THEN [s EXCEPT !.p.lock = [holder |-> NOTHR, count |-> 0]]
    ELSE [s EXCEPT !.p.lock.count = @ - 1]

\* lock_acquire(&pipe->lock); st = "wait" when it calls condition_wait
lock_acquire(s) ==
    IF s.p.lock.holder = s.k.TP
    THEN [s EXCEPT !.p.lock.count = @ + 1]
    ELSE IF s.p.lock.holder # NOTHR
    THEN [s EXCEPT !.k = condition_wait(s.k, released), !.st = "wait"]
    ELSE [s EXCEPT !.p.lock = [holder |-> s.k.TP, count |-> 1]]

\* lock_release(&pipe->lock)
lock_release(s) ==
    IF s.p.lock.holder # s.k.TP THEN s
    ELSE IF s.p.lock.count - 1 = 0
    THEN [s EXCEPT !.p.lock = [holder |-> NOTHR, count |-> 0],
                   !.k = condition_broadcast(s.k, released)]
    ELSE [s EXCEPT !.p.lock.count = @ - 1]

\* pipe_read: the loops, with the lock held
RECURSIVE PipeReadLoop(_)
PipeReadLoop(s) ==
    IF s.n >= s.len
    THEN [lock_release(s) EXCEPT !.st = "ret"]
    ELSE IF PipeEmpty(s.p)
    THEN IF PipeReadEof(s.p)
         THEN [lock_release(s) EXCEPT !.st = "ret"]
         ELSE Only({ [u EXCEPT !.k = condition_wait(u.k, can_read),
                               !.st = "wait"]
                     : u \in {lock_release(s)} })
    ELSE PipeReadLoop(
            [s EXCEPT !.buf = Append(@, s.p.buf[s.p.head + 1]),
                      !.n = @ + 1,
                      !.p.head = (s.p.head + 1) % PIPE_BUFSZ,
                      !.k = condition_broadcast(s.k, can_write)])

\* pipe_read(io, buf, bufsz); valid: io and buf are not NULL
pipe_read(s, valid) ==
    IF ~valid \/ s.len < 0
    THEN [s EXCEPT !.st = "ret", !.rc = "EINVAL"]
    ELSE Only({ IF a.st = "wait" THEN a ELSE PipeReadLoop(a)
                : a \in {lock_acquire(s)} })

\* the loops of a pipe_write that does not wake the reader
RECURSIVE PipeWriteLoopNoWake(_)
PipeWriteLoopNoWake(s) ==
    IF s.n >= s.len
    THEN [lock_release(s) EXCEPT !.st = "ret"]
    ELSE IF (((s.p.tail + 1) % PIPE_BUFSZ) = s.p.head)
    THEN IF s.p.refcnt_r = 0
         THEN [lock_release(s) EXCEPT !.st = "ret", !.rc = "EPIPE"]
         ELSE Only({ [u EXCEPT !.k = condition_wait(u.k, can_write),
                               !.st = "wait"]
                     : u \in {lock_release(s)} })
    ELSE PipeWriteLoopNoWake(
            [s EXCEPT !.p.buf[s.p.tail + 1] = s.buf[s.n + 1],
                      !.wlog = Append(@, s.buf[s.n + 1]),
                      !.n = @ + 1,
                      !.p.tail = (s.p.tail + 1) % PIPE_BUFSZ])

\* pipe_write: the loops, with the lock held
RECURSIVE PipeWriteLoop(_)
PipeWriteLoop(s) ==
    IF s.n >= s.len
    THEN [lock_release(s) EXCEPT !.st = "ret"]
    ELSE IF PipeFull(s.p)
    THEN IF s.p.refcnt_r = 0
         THEN [lock_release(s) EXCEPT !.st = "ret", !.rc = "EPIPE"]
         ELSE Only({ [u EXCEPT !.k = condition_wait(u.k, can_write),
                               !.st = "wait"]
                     : u \in {lock_release(s)} })
    ELSE PipeWriteLoop(
            [s EXCEPT !.p.buf[s.p.tail + 1] = s.buf[s.n + 1],
                      !.wlog = Append(@, s.buf[s.n + 1]),
                      !.n = @ + 1,
                      !.p.tail = (s.p.tail + 1) % PIPE_BUFSZ,
                      !.k = condition_broadcast(s.k, can_read)])

\* pipe_write(io, buf, len); valid: io and buf are not NULL
pipe_write(s, valid) ==
    IF ~valid \/ s.len < 0
    THEN [s EXCEPT !.st = "ret", !.rc = "EINVAL"]
    ELSE Only({ IF a.st = "wait" THEN a ELSE PipeWriteLoop(a)
                : a \in {lock_acquire(s)} })

\* pipe_close(io) of the read end ("close_r") or the write end ("close_w");
\* the pipe is freed when both counts are 0
pipe_close(s, end) ==
    Only({ IF a.st = "wait" THEN a
           ELSE [lock_release(
                    IF end = "close_r"
                    THEN [a EXCEPT !.p.refcnt_r = @ - 1,
                                   !.k = condition_broadcast(a.k, can_write)]
                    ELSE [a EXCEPT !.p.refcnt_w = @ - 1,
                                   !.k = condition_broadcast(a.k, can_read)])
                 EXCEPT !.st = "ret"]
           : a \in {lock_acquire(s)} })

\* no pipe call in progress
NoCall == [op |-> "none", len |-> 0, buf |-> <<>>, n |-> 0,
           blocked |-> FALSE, avail |-> 0, r0 |-> 0, w0 |-> 0]

NoPev == [op |-> "none", t |-> 0, len |-> 0, n |-> 0, rc |-> "OK",
          out |-> <<>>, blocked |-> FALSE, avail |-> 0, r0 |-> 0, w0 |-> 0,
          empty1 |-> FALSE, r1 |-> 0, w1 |-> 0,
          prev |-> [op |-> "none", t |-> 0, len |-> 0, n |-> 0,
                    avail |-> 0]]

\* a call as it is entered: avail, r0, w0 are the number of bytes in the
\* ring and the reference counts at that moment
StartCall(op, len, buf) ==
    [op |-> op, len |-> len, buf |-> buf, n |-> 0, blocked |-> FALSE,
     avail |-> Len(RingBytes(pipe)), r0 |-> pipe.refcnt_r, w0 |-> pipe.refcnt_w]

\* the locals of call c and the kernel state it runs on
CallState(c) ==
    [k |-> K, p |-> pipe, n |-> c.n, len |-> c.len, buf |-> c.buf,
     wlog |-> wlog, st |-> "go", rc |-> "OK"]

\* the call c of the running thread has run to r: it waits (its
\* condition_wait ends in running_thread_suspend) or it has returned
PipeStep(c, r) ==
    /\ pipe' = r.p
    /\ wlog' = r.wlog
    /\ IF r.st = "wait"
       THEN /\ SetK(running_thread_suspend(r.k))
            /\ pc' = [pc EXCEPT ![TP] = [at |-> "pipe", next |-> "run",
                                         arg |-> 0]]
            /\ pcall' = [pcall EXCEPT ![TP] =
                            [c EXCEPT !.n = r.n, !.buf = r.buf,
                                      !.blocked = TRUE]]
            /\ UNCHANGED <<pev, rlog>>
       ELSE /\ SetK(r.k)
            /\ pc' = [pc EXCEPT ![TP] = PcRun]
            /\ pcall' = [pcall EXCEPT ![TP] = NoCall]
            /\ pev' = [op |-> c.op, t |-> TP, len |-> c.len, n |-> r.n,
                       rc |-> r.rc,
                       out |-> IF c.op = "read" THEN r.buf ELSE <<>>,
                       blocked |-> c.blocked, avail |-> c.avail,
                       r0 |-> c.r0, w0 |-> c.w0,
                       empty1 |-> PipeEmpty(r.p),
                       r1 |-> r.p.refcnt_r, w1 |-> r.p.refcnt_w,
                       prev |-> [op |-> pev.op, t |-> pev.t,
                                 len |-> pev.len, n |-> pev.n,
                                 avail |-> pev.avail]]
            /\ rlog' = IF c.op = "read" THEN rlog \o r.buf ELSE rlog

\* the running thread was resumed inside the pipe call op
Resumed(op) == halted = "no" /\ pc[TP].at = "pipe" /\ pcall[TP].op = op

\* main has called create_pipe and has spawned one thread
PipeStart ==
    /\ \E junk \in JunkBytes : pipe = create_pipe(junk)
    /\ \E r \in {thread_spawn(InitK, TRUE)} :
          /\ thrtab = r.k.thrtab
          /\ ready_list = r.k.ready_list
          /\ wait_list = r.k.wait_list
          /\ TP = r.k.TP
          /\ halted = r.k.halted
    /\ pc = [t \in Tids |-> PcRun]
    /\ tev = NoTev
    /\ pcall = [t \in Tids |-> NoCall]
    /\ pev = NoPev
    /\ wlog = <<>>
    /\ rlog = <<>>
    /\ CacheIdle
    /\ ExtIdle

\* the threads call the pipe operations in any order
InitPipe ==
    /\ PipeStart
    /\ prog = [t \in Tids |-> "any"]

\* pipe_read(rio, buf, bufsz) by a holder of the read end; the calls of
\* pipe_read follow one another (no two threads are inside pipe_read)
PipeRead(valid, bufsz) ==
    /\ CanCall
    /\ pipe.refcnt_r > 0
    /\ \A t \in Tids : pcall[t].op # "read"
    /\ \E c \in {StartCall("read", bufsz, <<>>)} :
          \E r \in {pipe_read(CallState(c), valid)} : PipeStep(c, r)
    /\ UNCHANGED <<prog, nonPipeVars>>

PipeReadResume ==
    /\ Resumed("read")
    /\ \E r \in {pipe_read(CallState(pcall[TP]), TRUE)} :
          PipeStep(pcall[TP], r)
    /\ UNCHANGED <<prog, nonPipeVars>>

\* the bytes given to pipe_write are numbered 1, 2, ... in the order of the
\* calls, so that a byte lost, repeated or out of order shows
NextByte ==
    1 + Max({0} \cup ListSet(wlog)
            \cup UNION {ListSet(pcall[t].buf) : t \in Tids})

\* pipe_write(wio, buf, len) by a holder of the write end
PipeWrite(valid, len) ==
    /\ CanCall
    /\ pipe.refcnt_w > 0
    /\ NextByte + len - 1 <= PipeMaxBytes
    /\ \E c \in {StartCall("write", len,
                            [i \in 1..len |-> NextByte + i - 1])} :
          \E r \in {pipe_write(CallState(c), valid)} : PipeStep(c, r)
    /\ UNCHANGED <<prog, nonPipeVars>>

PipeWriteResume ==
    /\ Resumed("write")
    /\ \E r \in {pipe_write(CallState(pcall[TP]), TRUE)} :
          PipeStep(pcall[TP], r)
    /\ UNCHANGED <<prog, nonPipeVars>>

\* ioclose of the last reference to an end: no thread is inside a call on it
PipeClose(end) ==
    /\ \/ /\ CanCall
          /\ IF end = "close_r" THEN pipe.refcnt_r > 0 ELSE pipe.refcnt_w > 0
          /\ \A t \in Tids :
                pcall[t].op # (IF end = "close_r" THEN "read" ELSE "write")
          /\ \A t \in Tids : pcall[t].op # end
          /\ \E c \in {StartCall(end, 0, <<>>)} :
                \E r \in {pipe_close(CallState(c), end)} : PipeStep(c, r)
       \/ /\ Resumed(end)
          /\ \E r \in {pipe_close(CallState(pcall[TP]), end)} :
                PipeStep(pcall[TP], r)
    /\ UNCHANGED <<prog, nonPipeVars>>

NextPipe ==
    \/ \E valid \in BOOLEAN : \E bufsz \in 0..PIPE_BUFSZ :
          PipeRead(valid, bufsz)
    \/ PipeReadResume
    \/ \E valid \in BOOLEAN : \E len \in 0..PIPE_BUFSZ :
          PipeWrite(valid, len)
    \/ PipeWriteResume
    \/ \E end \in {"close_r", "close_w"} : PipeClose(end)
    \/ Yield
    \/ IdleYield

SpecPipe == InitPipe /\ [][NextPipe]_vars

\* C4: the bytes returned by the successive pipe_read calls are a prefix of
\* the bytes stored by pipe_write, in the same order; a pipe_write of at
\* most PIPE_BUFSZ - 1 - (bytes in the ring) bytes, with a reader, returns
\* its length without blocking, never blocks otherwise than for lack of
\* room, and a pipe_read of at most as many bytes as the ring holds returns
\* that many bytes without blocking, the oldest ones: so pipe_write(s) on an
\* empty pipe followed in the same thread by pipe_read(len(s)) returns s for
\* every s of at most PIPE_BUFSZ - 1 bytes.
C4_RoundTrip ==
    /\ Len(rlog) <= Len(wlog)
    /\ \A i \in 1..Len(rlog) : rlog[i] = wlog[i]
    /\ (/\ pev.op = "write"
        /\ pev.rc # "EINVAL"
        /\ pev.r0 > 0
        /\ pev.len <= (PIPE_BUFSZ - 1) - pev.avail)
       => (pev.rc = "OK" /\ pev.n = pev.len /\ ~pev.blocked)
    /\ (/\ pev.op = "read"
        /\ pev.rc # "EINVAL"
        /\ pev.len <= pev.avail)
       => /\ pev.rc = "OK"
          /\ pev.n = pev.len
          /\ ~pev.blocked
          /\ pev.out = SubSeq(wlog, Len(rlog) - pev.n + 1, Len(rlog))
    /\ \A t \in Tids :
          (pcall[t].op = "write" /\ pcall[t].blocked)
          => pcall[t].len > (PIPE_BUFSZ - 1) - pcall[t].avail
    /\ \A t \in Tids :
          (pcall[t].op = "read" /\ pcall[t].blocked)
          => pcall[t].len > pcall[t].avail

\* a thread wrote PIPE_BUFSZ - 1 bytes to the empty pipe and read them back
C4_Witness ==
    /\ pev.op = "read"
    /\ pev.prev.op = "write"
    /\ pev.prev.t = pev.t
    /\ pev.prev.avail = 0
    /\ pev.prev.n = PIPE_BUFSZ - 1
    /\ pev.len = PIPE_BUFSZ - 1
    /\ pev.avail = PIPE_BUFSZ - 1
    /\ pev.n = PIPE_BUFSZ - 1
    /\ ~pev.blocked

\* C4 as claimed, with a capacity of PIPE_BUFSZ bytes
C4_RoundTripBufsz ==
    /\ Len(rlog) <= Len(wlog)
    /\ \A i \in 1..Len(rlog) : rlog[i] = wlog[i]
    /\ (/\ pev.op = "write"
        /\ pev.rc # "EINVAL"
        /\ pev.r0 > 0
        /\ pev.len <= PIPE_BUFSZ - pev.avail)
       => (pev.rc = "OK" /\ pev.n = pev.len /\ ~pev.blocked)
    /\ (/\ pev.op = "read"
        /\ pev.rc # "EINVAL"
        /\ pev.len <= pev.avail)
       => /\ pev.rc = "OK"
          /\ pev.n = pev.len
          /\ ~pev.blocked
          /\ pev.out = SubSeq(wlog, Len(rlog) - pev.n + 1, Len(rlog))
    /\ \A t \in Tids :
          (pcall[t].op = "write" /\ pcall[t].blocked)
          => pcall[t].len > PIPE_BUFSZ - pcall[t].avail
    /\ \A t \in Tids :
          (pcall[t].op = "read" /\ pcall[t].blocked)
          => pcall[t].len > pcall[t].avail

\* C5: a pipe_write of len > 0 called when the reader count is 0 returns
\* EPIPE and stores no byte, whatever room the ring has; a pipe_write that
\* returns while a reader exists does not return EPIPE; a writer is WAITING
\* only while the ring is full and a reader exists.
C5_WriterAfterReadersClosed ==
    /\ (/\ pev.op = "write"
        /\ pev.rc # "EINVAL"
        /\ pev.len > 0
        /\ pev.r0 = 0)
       => (pev.rc = "EPIPE" /\ pev.n = 0)
    /\ (pev.op = "write" /\ pev.r1 > 0) => pev.rc # "EPIPE"
    /\ \A t \in Tids :
          (pcall[t].op = "write" /\ thrtab[t].state = "WAITING")
          => (PipeFull(pipe) /\ pipe.refcnt_r > 0)

\* C6: a pipe_read with bufsz > 0 returns 0 only when the ring is empty and
\* the writer count is 0; a pipe_read called after the write end was closed
\* does not block and returns the bytes left in the ring, up to bufsz (so 0
\* only once they are all read); no reader is WAITING while the writer
\* count is 0.
C6_ReaderEndOfStream ==
    /\ (/\ pev.op = "read"
        /\ pev.rc = "OK"
        /\ pev.len > 0
        /\ pev.n = 0)
       => (pev.empty1 /\ pev.w1 = 0)
    /\ (/\ pev.op = "read"
        /\ pev.rc = "OK"
        /\ pev.w0 = 0)
       => /\ ~pev.blocked
          /\ pev.n = Min({pev.len, pev.avail})
          /\ pev.out = SubSeq(wlog, Len(rlog) - pev.n + 1, Len(rlog))
    /\ (pev.op = "read" /\ pev.rc = "OK" /\ pev.n < pev.len)
       => (pev.empty1 /\ pev.w1 = 0)
    /\ (pipe.refcnt_w = 0) =>
          /\ wait_list[can_read] = <<>>
          /\ \A t \in Tids :
                pcall[t].op = "read" => thrtab[t].state # "WAITING"

\* after the write end was closed with bytes in the ring, a pipe_read got
\* them as a short read and the next pipe_read returned 0
C6_Witness ==
    /\ pev.op = "read"
    /\ pev.rc = "OK"
    /\ pev.len > 0
    /\ pev.n = 0
    /\ pev.w0 = 0
    /\ pev.prev.op = "read"
    /\ pev.prev.n > 0
    /\ pev.prev.n < pev.prev.len
    /\ pev.prev.avail = pev.prev.n

(***************************************************************************)
(* A writer and a reader on one pipe.  One of main and the thread it has   *)
(* spawned is the writer: it calls pipe_write once with more bytes than    *)
(* the ring holds, may call thread_yield, and closes the write end.  The   *)
(* other is the reader: it calls pipe_read with a buffer smaller than the  *)
(* ring until a call returns 0.  Then main joins the thread, and the       *)
(* thread exits.  prog[t] is the place of thread t in its program.         *)
(***************************************************************************)
\* the writer writes at most RunMaxBytes bytes
RunMaxBytes == 5

\* the thread main has spawned
RunChild == thread_spawn(InitK, TRUE).ret

IsWriter(t) == prog[t] \in {"write", "close", "close2", "wfin", "wdone"}
IsReader(t) == prog[t] \in {"read", "rfin", "rdone"}

InitPipeRun ==
    /\ PipeStart
    /\ \E w \in {MAIN_TID, RunChild} :
          prog = [t \in Tids |->
                    IF t = w THEN "write"
                    ELSE IF t \in {MAIN_TID, RunChild} THEN "read"
                    ELSE "none"]

\* the call c of the running thread has run to r; the thread goes on to
\* next when the call has returned
RunStep(c, r, next) ==
    /\ PipeStep(c, r)
    /\ prog' = IF r.st = "wait" THEN prog ELSE [prog EXCEPT ![TP] = next]
    /\ UNCHANGED nonPipeVars

\* the reader: pipe_read(rio, buf, bufsz) until it returns 0
RunRead(bufsz) ==
    /\ CanCall
    /\ prog[TP] = "read"
    /\ \E c \in {StartCall("read", bufsz, <<>>)} :
          \E r \in {pipe_read(CallState(c), TRUE)} :
             RunStep(c, r, IF r.n = 0 THEN "rfin" ELSE "read")

RunReadResume ==
    /\ Resumed("read")
    /\ prog[TP] = "read"
    /\ \E r \in {pipe_read(CallState(pcall[TP]), TRUE)} :
          RunStep(pcall[TP], r, IF r.n = 0 THEN "rfin" ELSE "read")

\* the writer: one pipe_write(wio, buf, len)
RunWrite(len) ==
    /\ CanCall
    /\ prog[TP] = "write"
    /\ \E c \in {StartCall("write", len,
                            [i \in 1..len |-> NextByte + i - 1])} :
          \E r \in {pipe_write(CallState(c), TRUE)} : RunStep(c, r, "close")

RunWriteResume ==
    /\ Resumed("write")
    /\ prog[TP] = "write"
    /\ \E r \in {pipe_write(CallState(pcall[TP]), TRUE)} :
          RunStep(pcall[TP], r, "close")

\* the writer calls thread_yield before it closes its end
RunYield ==
    /\ CanCall
    /\ prog[TP] = "close"
    /\ SetK(running_thread_suspend(K))
    /\ prog' = [prog EXCEPT ![TP] = "close2"]
    /\ tev' = [NoTev EXCEPT !.op = "yield", !.t = TP]
    /\ UNCHANGED <<pc, pipe, pcall, pev, wlog, rlog, cacheVars, ktfsVars,
                 extVars>>

\* the writer: ioclose(wio), the last reference to the write end
RunClose ==
    /\ IF pc[TP].at = "run"
       THEN CanCall /\ prog[TP] \in {"close", "close2"}
       ELSE Resumed("close_w")
    /\ \E c \in {IF pc[TP].at = "run" THEN StartCall("close_w", 0, <<>>)
                 ELSE pcall[TP]} :
          \E r \in {pipe_close(CallState(c), "close_w")} :
             RunStep(c, r, "wfin")

\* main ends with thread_join of the thread it has spawned
RunJoin ==
    /\ CanCall
    /\ TP = MAIN_TID
    /\ prog[TP] \in {"wfin", "rfin"}
    /\ \E r \in {thread_join(K, RunChild)} :
          /\ SetK(r.k)
          /\ pc' = IF r.wait
                   THEN [pc EXCEPT ![TP] = [at |-> "cw", next |-> "join",
                                            arg |-> RunChild]]
                   ELSE pc
          /\ tev' = IF r.wait
                    THEN [NoTev EXCEPT !.op = "join_wait", !.t = TP,
                                       !.arg = RunChild]
                    ELSE JoinTev(RunChild, r.rc, RunChild, FALSE)
    /\ prog' = [prog EXCEPT ![TP] = IF @ = "wfin" THEN "wdone" ELSE "rdone"]
    /\ UNCHANGED <<pipe, pcall, pev, wlog, rlog, cacheVars, ktfsVars,
                 extVars>>

\* the spawned thread ends with thread_exit
RunExit ==
    /\ CanCall
    /\ TP # MAIN_TID
    /\ prog[TP] \in {"wfin", "rfin"}
    /\ SetK(thread_exit(K))
    /\ prog' = [prog EXCEPT ![TP] = IF @ = "wfin" THEN "wdone" ELSE "rdone"]
    /\ tev' = [NoTev EXCEPT !.op = "exit", !.t = TP]
    /\ UNCHANGED <<pc, pipe, pcall, pev, wlog, rlog, cacheVars, ktfsVars,
                 extVars>>

NextPipeRun ==
    \/ \E bufsz \in 1..(PIPE_BUFSZ - 1) : RunRead(bufsz)
    \/ RunReadResume
    \/ \E len \in (PIPE_BUFSZ + 1)..RunMaxBytes : RunWrite(len)
    \/ RunWriteResume
    \/ RunYield
    \/ RunClose
    \/ RunJoin
    \/ RunExit
    \/ Suspend
    \/ JoinFinish
    \/ IdleYield

\* the processor always executes the running thread: a step that is
\* possible is taken
SpecPipeRun == InitPipeRun /\ [][NextPipeRun]_vars /\ WF_vars(NextPipeRun)

\* the writer waits on can_write and the reader waits on can_read
BothWaiting ==
    \E w \in Tids : \E r \in Tids :
       /\ IsWriter(w) /\ IsReader(r)
       /\ thrtab[w].state = "WAITING" /\ thrtab[w].wait_cond = can_write
       /\ thrtab[r].state = "WAITING" /\ thrtab[r].wait_cond = can_read

\* both programs have run to their end
RunFinished ==
    /\ \A t \in Tids : prog[t] \in {"wdone", "rdone", "none"}
    /\ TP = MAIN_TID
    /\ pc[MAIN_TID].at = "run"

\* C7: with one writer that writes more bytes than the ring holds and one
\* reader that calls pipe_read with a smaller buffer until it gets 0, the
\* writer never waits on can_write while the reader waits on can_read, the
\* bytes read are always the first of the bytes written, a pipe_read entered
\* when the writer has closed its end and every byte has been read returns
\* 0 at once, and in the end both threads have finished: the reader has
\* read every byte written and its last call has returned 0.
C7_PipeProgress ==
    /\ [](~BothWaiting)
    /\ [](Len(rlog) <= Len(wlog) /\ rlog = SubSeq(wlog, 1, Len(rlog)))
    /\ []((pev.op = "read" /\ pev.w0 = 0 /\ pev.avail = 0)
             => (pev.rc = "OK" /\ pev.n = 0 /\ ~pev.blocked))
    /\ <>[](/\ RunFinished
            /\ rlog = wlog
            /\ Len(wlog) > PIPE_BUFSZ
            /\ pev.op = "read" /\ pev.rc = "OK" /\ pev.n = 0)

\* both threads have finished after the writer has waited for the reader,
\* and the reader's call after the close has returned 0 without waiting
C7_Witness ==
    /\ RunFinished
    /\ rlog = wlog
    /\ Len(wlog) > PIPE_BUFSZ
    /\ pev.op = "read" /\ pev.n = 0 /\ pev.w0 = 0 /\ ~pev.blocked
    /\ pev.prev.op = "read" /\ pev.prev.n > 0

(***************************************************************************)
(* Locks (thread.c).  lock_acquire and lock_release run with interrupts    *)
(* disabled, and the condition_wait inside lock_acquire is entered with    *)
(* interrupts disabled, so each runs from its entry, or from the point     *)
(* where the scheduler resumes it, to its return or to its wait without    *)
(* any other code in between.  Main and two threads it has spawned use one *)
(* lock.                                                                   *)
(***************************************************************************)
\* a thread nests at most LockMaxDepth lock_acquire calls
LockMaxDepth == 2

\* lock_init(&lock)
lock_init == [holder |-> NOTHR, count |-> 0]

NoLev == [op |-> "none", t |-> 0, blocked |-> FALSE, holder0 |-> NOTHR,
          count0 |-> 0, held0 |-> 0, W |-> {}, peak |-> 0]

\* the lock and the kernel state a lock call runs on
LockCall == [k |-> K, p |-> [lock |-> lock], st |-> "go"]

\* main has called lock_init and has spawned two threads
LockStart ==
    /\ \E r \in {thread_spawn(thread_spawn(InitK, TRUE).k, TRUE)} :
          /\ thrtab = r.k.thrtab
          /\ ready_list = r.k.ready_list
          /\ wait_list = r.k.wait_list
          /\ TP = r.k.TP
          /\ halted = r.k.halted
    /\ pc = [t \in Tids |-> PcRun]
    /\ tev = NoTev
    /\ lock = lock_init
    /\ lheld = [t \in Tids |-> 0]
    /\ lev = NoLev
    /\ pipe = <<>>
    /\ pcall = <<>>
    /\ pev = <<>>
    /\ wlog = <<>>
    /\ rlog = <<>>
    /\ cache = create_cache
    /\ disk = [b \in 0..(DiskBlocks - 1) |-> 0]
    /\ pin = NULL
    /\ wrote = FALSE
    /\ shadow = <<>>
    /\ dirtied = {}
    /\ mru = <<>>
    /\ cev = NoEvent
    /\ KtfsIdle
    /\ SysIdle
    /\ MemIdle
    /\ AuxIdle

\* the threads call lock_acquire and lock_release in any order
InitLock ==
    /\ LockStart
    /\ prog = <<>>

\* what a lock call leaves alone
nonLockVars == <<cacheVars, ktfsVars, tev, pipe, pcall, pev, wlog, rlog, sysVars,
                 memVars, auxVars>>

\* lock_acquire(&lock) of the running thread has run to r: it waits on
\* lock.released (condition_wait ends in running_thread_suspend) or it
\* has returned
LockAcquireStep(r, resumed) ==
    /\ lock' = r.p.lock
    /\ IF r.st = "wait"
       THEN /\ SetK(running_thread_suspend(r.k))
            /\ pc' = [pc EXCEPT ![TP] = [at |-> "lock", next |-> "run",
                                         arg |-> 0]]
            /\ lheld' = lheld
            /\ lev' = [lev EXCEPT !.op = "acquire_wait", !.t = TP,
                                  !.blocked = resumed,
                                  !.holder0 = lock.holder,
                                  !.count0 = lock.count,
                                  !.held0 = lheld[TP],
                                  !.W = ListSet(wait_list[released])]
       ELSE /\ SetK(r.k)
            /\ pc' = [pc EXCEPT ![TP] = PcRun]
            /\ lheld' = [lheld EXCEPT ![TP] = @ + 1]
            /\ lev' = [op |-> "acquire", t |-> TP, blocked |-> resumed,
                       holder0 |-> lock.holder, count0 |-> lock.count,
                       held0 |-> lheld[TP],
                       W |-> ListSet(wait_list[released]),
                       peak |-> IF lheld[TP] = 0 THEN 1
                                ELSE Max({lev.peak, lheld[TP] + 1})]
    /\ UNCHANGED nonLockVars

\* lock_acquire(&lock): the call
LockAcquire ==
    /\ CanCall
    /\ lheld[TP] < LockMaxDepth
    /\ \E r \in {lock_acquire(LockCall)} : LockAcquireStep(r, FALSE)
    /\ UNCHANGED prog

\* lock_acquire(&lock): after condition_wait has returned
LockAcquireResume ==
    /\ halted = "no"
    /\ pc[TP].at = "lock"
    /\ \E r \in {lock_acquire(LockCall)} : LockAcquireStep(r, TRUE)
    /\ UNCHANGED prog

\* lock_release(&lock) of the running thread has run to r
LockReleaseStep(r) ==
    /\ lock' = r.p.lock
    /\ SetK(r.k)
    /\ lheld' = [lheld EXCEPT ![TP] = IF @ > 0 THEN @ - 1 ELSE 0]
    /\ lev' = [lev EXCEPT !.op = "release", !.t = TP, !.blocked = FALSE,
                          !.holder0 = lock.holder, !.count0 = lock.count,
                          !.held0 = lheld[TP],
                          !.W = ListSet(wait_list[released])]
    /\ UNCHANGED <<pc, nonLockVars>>

\* lock_release(&lock), by the holder or by another thread
LockRelease ==
    /\ CanCall
    /\ \E r \in {lock_release(LockCall)} : LockReleaseStep(r)
    /\ UNCHANGED prog

NextLock ==
    \/ LockAcquire
    \/ LockAcquireResume
    \/ LockRelease
    \/ Yield
    \/ IdleYield

SpecLock == InitLock /\ [][NextLock]_vars

\* C11: in every state holder is NULL exactly when count is 0, at most one
\* thread has a returned lock_acquire that its lock_release calls have not
\* yet matched, that thread is the holder and count is the number of its
\* unmatched calls; and a step changes count only when the running thread
\* is the holder before the step, or takes the free lock in it.
C11_LockMutex ==
    /\ []((lock.holder = NOTHR) <=> (lock.count = 0))
    /\ [](Cardinality({t \in Tids : lheld[t] > 0}) <= 1)
    /\ [](\A t \in Tids : lheld[t] > 0 =>
             (lock.holder = t /\ lock.count = lheld[t]))
    /\ [][(lock'.count # lock.count) =>
             \/ lock.holder = TP
             \/ (lock.holder = NOTHR /\ lock'.holder = TP /\ lock'.count = 1)
         ]_vars

\* a thread holds the lock after two lock_acquire calls while the two
\* other threads wait for it in lock_acquire
C11_Witness ==
    /\ lock.holder # NOTHR
    /\ lock.count = 2
    /\ lheld[lock.holder] = 2
    /\ Cardinality(ListSet(wait_list[released])) = 2
    /\ \A t \in ListSet(wait_list[released]) : pc[t].at = "lock"

\* C12: a lock_release by the holder whose lock_acquire calls number more
\* than its earlier lock_release calls by d leaves the lock held with
\* count d - 1 and wakes nobody when d > 1, and frees the lock (holder
\* NULL, count 0) and makes every waiter READY when d = 1; a lock_release
\* by a thread that is not the holder changes neither holder, count nor the
\* wait list.
C12_LockReentrancy ==
    [][LockRelease =>
         IF lheld[TP] > 0
         THEN /\ lock.holder = TP
              /\ lock.count = lheld[TP]
              /\ IF lheld[TP] = 1
                 THEN /\ lock' = [holder |-> NOTHR, count |-> 0]
                      /\ wait_list'[released] = <<>>
                      /\ \A w \in ListSet(wait_list[released]) :
                            thrtab'[w].state = "READY"
                 ELSE /\ lock' = [holder |-> TP, count |-> lheld[TP] - 1]
                      /\ wait_list' = wait_list
                      /\ thrtab' = thrtab
         ELSE /\ lock.holder # TP
              /\ lock' = lock
              /\ wait_list' = wait_list
              /\ thrtab' = thrtab
     ]_vars

\* the holder's second lock_release, after two lock_acquire calls, has
\* freed the lock and woken a waiter
C12_Witness ==
    /\ lev.op = "release"
    /\ lev.held0 = 1
    /\ lev.peak = 2
    /\ lev.W # {}
    /\ lock.holder = NOTHR
    /\ \E w \in lev.W : thrtab[w].state = "READY"

(***************************************************************************)
(* Three threads that each take the lock once.  A thread may call          *)
(* thread_yield, calls lock_acquire, may call lock_acquire again, may call *)
(* thread_yield once while it holds the lock, and then calls lock_release  *)
(* as many times as it called lock_acquire.  Then a spawned thread exits,  *)
(* and main joins the two threads it has spawned.  prog[t] is the place of *)
(* thread t in this program.                                               *)
(***************************************************************************)
InitLockRun ==
    /\ LockStart
    /\ prog = [t \in Tids |-> IF thrtab[t].used /\ t # IDLE_TID
                              THEN "acq" ELSE "none"]

\* the thread's first lock_acquire(&lock)
LockRunAcquire ==
    /\ IF pc[TP].at = "run"
       THEN CanCall /\ prog[TP] \in {"acq", "acqy"}
       ELSE halted = "no" /\ pc[TP].at = "lock"
    /\ \E r \in {lock_acquire(LockCall)} :
          /\ LockAcquireStep(r, pc[TP].at = "lock")
          /\ prog' = IF r.st = "wait" THEN prog
                     ELSE [prog EXCEPT ![TP] = "held"]

\* lock_acquire(&lock) by the holder
LockRunNest ==
    /\ CanCall
    /\ prog[TP] = "held"
    /\ lheld[TP] < LockMaxDepth
    /\ \E r \in {lock_acquire(LockCall)} : LockAcquireStep(r, FALSE)
    /\ UNCHANGED prog

\* thread_yield(), before the thread's first lock_acquire or by the holder
LockRunYield ==
    /\ CanCall
    /\ prog[TP] \in {"acq", "held"}
    /\ SetK(running_thread_suspend(K))
    /\ prog' = [prog EXCEPT ![TP] = IF @ = "acq" THEN "acqy" ELSE "heldy"]
    /\ tev' = [NoTev EXCEPT !.op = "yield", !.t = TP]
    /\ UNCHANGED <<pc, lockVars, pipe, pcall, pev, wlog, rlog, cacheVars,
                   ktfsVars, sysVars, memVars, auxVars>>

\* lock_release(&lock) by the holder; its last one ends the thread's use
\* of the lock
LockRunRelease ==
    /\ CanCall
    /\ prog[TP] \in {"held", "heldy", "rel"}
    /\ \E r \in {lock_release(LockCall)} : LockReleaseStep(r)
    /\ prog' = [prog EXCEPT ![TP] = IF lheld[TP] = 1 THEN "fin" ELSE "rel"]

\* main ends with thread_join of the two threads it has spawned
LockRunJoin ==
    /\ CanCall
    /\ TP = MAIN_TID
    /\ prog[TP] \in {"fin", "join2"}
    /\ \E tid \in {IF prog[TP] = "fin" THEN 1 ELSE 2} :
       \E r \in {thread_join(K, tid)} :
          /\ SetK(r.k)
          /\ pc' = IF r.wait
                   THEN [pc EXCEPT ![TP] = [at |-> "cw", next |-> "join",
                                            arg |-> tid]]
                   ELSE pc
          /\ tev' = IF r.wait
                    THEN [NoTev EXCEPT !.op = "join_wait", !.t = TP,
                                       !.arg = tid]
                    ELSE JoinTev(tid, r.rc, tid, FALSE)
    /\ prog' = [prog EXCEPT ![TP] = IF @ = "fin" THEN "join2" ELSE "done"]
    /\ UNCHANGED <<lockVars, pipe, pcall, pev, wlog, rlog, cacheVars,
                   ktfsVars, sysVars, memVars, auxVars>>

\* a spawned thread ends with thread_exit
LockRunExit ==
    /\ CanCall
    /\ TP # MAIN_TID
    /\ prog[TP] = "fin"
    /\ SetK(thread_exit(K))
    /\ prog' = [prog EXCEPT ![TP] = "done"]
    /\ tev' = [NoTev EXCEPT !.op = "exit", !.t = TP]
    /\ UNCHANGED <<pc, lockVars, pipe, pcall, pev, wlog, rlog, cacheVars,
                   ktfsVars, sysVars, memVars, auxVars>>

NextLockRun ==
    \/ LockRunAcquire
    \/ LockRunNest
    \/ LockRunYield
    \/ LockRunRelease
    \/ LockRunJoin
    \/ LockRunExit
    \/ Suspend
    \/ JoinFinish
    \/ IdleYield

\* the processor always executes the running thread: a step that is
\* possible is taken
SpecLockRun == InitLockRun /\ [][NextLockRun]_vars /\ WF_vars(NextLockRun)

MaxSio == 3
\* directory entries the image can start with
MaxFill == 4
\* directory and open calls made on one image
DirMaxOps == 5

\* unsigned long arithmetic, scaled down to 30 bits
UlongMod == 2 ^ 30

Ulong(x) == ((x % UlongMod) + UlongMod) % UlongMod

Sios == 1..MaxSio

\* NULL
NoIo == <<>>

\* memory that holds no struct seekio; name is history: the name the object
\* was opened with
NoSio == [refcnt |-> 0, bkgio |-> 0 - 1, name |-> 0]

\* io->refcnt
IoRefcnt(st, io) ==
    CASE io[1] = "file" -> st.of[io[2]].refcnt
      [] io[1] = "sio"  -> st.sio[io[2]].refcnt
      [] io[1] = "dev"  -> st.devio[io[2]]
      [] io[1] = "wio"  -> st.pio[io[2]].wio
      [] io[1] = "rio"  -> st.pio[io[2]].rio

IoSetRefcnt(st, io, v) ==
    CASE io[1] = "file" -> [st EXCEPT !.of[io[2]].refcnt = v]
      [] io[1] = "sio"  -> [st EXCEPT !.sio[io[2]].refcnt = v]
      [] io[1] = "dev"  -> [st EXCEPT !.devio[io[2]] = v]
      [] io[1] = "wio"  -> [st EXCEPT !.pio[io[2]].wio = v]
      [] io[1] = "rio"  -> [st EXCEPT !.pio[io[2]].rio = v]

\* an ioaddref that forgets the count
ioaddref_none(st, io) == st

\* ioaddref(io)
ioaddref(st, io) == IoSetRefcnt(st, io, Ulong(IoRefcnt(st, io) + 1))

\* whether a seekable I/O object that is still referenced has io as its
\* backing object
IoWrapped(st, io) ==
    \E h \in DOMAIN st.sio :
        st.sio[h].refcnt > 0 /\ io = <<"file", st.sio[h].bkgio>>

\* whether io is open: an open-file entry is open while it is in use
IoIsOpen(st, io) == io[1] = "file" => st.of[io[2]].in_use = 1

\* the log entry of a close operation: by is the caller, refcnt the count of
\* the object when its close operation starts
CloseLog(st, io, by) ==
    [st EXCEPT !.closes = Append(@, [io |-> io, by |-> by,
                                     refcnt |-> IoRefcnt(st, io),
                                     wrapped |-> IoWrapped(st, io),
                                     isopen |-> IoIsOpen(st, io)])]

\* pipe_close(io) outside of any pipe call: the count of the end goes down
\* and the pipe is freed when both counts are 0
PipeEndClose(st, io) ==
    LET p  == io[2]
        s1 == IF io[1] = "rio"
              THEN [st EXCEPT !.pio[p].refcnt_r = @ - 1]
              ELSE [st EXCEPT !.pio[p].refcnt_w = @ - 1]
    IN  IF s1.pio[p].refcnt_r = 0 /\ s1.pio[p].refcnt_w = 0
        THEN [s1 EXCEPT !.pio[p].live = FALSE]
        ELSE s1

RECURSIVE ioclose(_, _)

\* seekio_close(io): the count of the backing object goes down once here
\* and once more in ioclose; then the object is freed
seekio_close(st, h) ==
    LET bkgio == <<"file", st.sio[h].bkgio>>
    IN  Only({ [c EXCEPT !.sio[h] = NoSio]
               : c \in {ioclose(IoSetRefcnt(st, bkgio,
                                            Ulong(IoRefcnt(st, bkgio) - 1)),
                                bkgio)} })

\* io->intf->close(io)
IoCloseOp(st, io, by) ==
    Only({ CASE io[1] = "file" -> [l EXCEPT !.of = ktfs_close(@, io[2])]
             [] io[1] = "sio"  -> seekio_close(l, io[2])
             [] io[1] = "dev"  -> l
             [] io[1] \in {"wio", "rio"} -> PipeEndClose(l, io)
           : l \in {CloseLog(st, io, by)} })

\* ioclose(io); a failed assert is a panic
ioclose(st, io) ==
    IF IoRefcnt(st, io) = 0
    THEN [st EXCEPT !.panic = TRUE]
    ELSE Only({ IF IoRefcnt(d, io) = 0 THEN IoCloseOp(d, io, "ioclose") ELSE d
                : d \in {IoSetRefcnt(st, io, Ulong(IoRefcnt(st, io) - 1))} })

\* create_seekable_io(io) at the end of ktfs_open: kcalloc takes the first
\* free address; the ioaddref is in the count ktfs_open leaves
create_seekable_io(st, fd, name) ==
    LET h == Min({x \in Sios : st.sio[x] = NoSio})
    IN  [st EXCEPT !.sio[h] = [refcnt |-> 1, bkgio |-> fd, name |-> name],
                   !.h = h]

\* fsopen(name, ioptr): ktfs_open and the seekable I/O object it returns
fsopen(st, name) ==
    Only({ IF r.rc # "OK"
           THEN [st EXCEPT !.fs = r.fs, !.rc = r.rc]
           ELSE create_seekable_io([st EXCEPT !.fs = r.fs, !.of = r.of, !.rc = "OK"],
                                   r.fd, name)
           : r \in {ktfs_open(st.fs, st.of, name)} })

\* find_inode_by_name(name, inode_num, delete = 1) once the name is found in
\* the cache entry s.found_blk: the last entry takes the place of the found
\* one, the last slot is cleared, both blocks are released dirty and the
\* root inode is written with the smaller size; no block is given back
FindDeleteSwap(s, root, total) ==
    LET last_idx   == total - 1
        last_blk_i == last_idx \div dentries_per_blk
        last_slot  == last_idx % dentries_per_blk
    IN  Only({
          IF g.rc # "OK"
          THEN [fs |-> FsOf(g), rc |-> g.rc, inode_num |-> s.inode_num]
          ELSE Only({
                 Only({
                   Only({
                     Only({
                       [fs |-> p.fs, rc |-> p.rc, inode_num |-> s.inode_num]
                       : p \in {put_inode(w2, root_directory_inode,
                                          [root EXCEPT !.size =
                                             U32(root.size - KTFS_DENSZ)])} })
                     : w2 \in {IF g.blk # s.found_blk
                               THEN cache_release_block(w1.cache, w1.disk, g.blk, 1)
                               ELSE w1} })
                   : w1 \in {cache_release_block(
                               [c1 EXCEPT !.block[g.blk] =
                                  SetCells(@, last_slot * KTFS_DENSZ,
                                           [i \in 1..KTFS_DENSZ |-> 0])],
                               g.disk, s.found_blk, 1)} })
                 : c1 \in {IF last_idx # s.global_idx
                           THEN [g.cache EXCEPT !.block[s.found_blk] =
                                   SetCells(@, s.found_slot * KTFS_DENSZ,
                                            Cells(g.cache.block[g.blk],
                                                  last_slot * KTFS_DENSZ,
                                                  KTFS_DENSZ))]
                           ELSE g.cache} })
          : g \in {cache_get_block(s.fs.cache, s.fs.disk,
                                   DataPos(root.block[last_blk_i + 1]))} })

\* find_inode_by_name(name, inode_num, delete = 1)
find_inode_by_name_delete(fs, name) ==
    Only({
      IF r.rc # "OK"
      THEN [fs |-> r.fs, rc |-> r.rc, inode_num |-> 0]
      ELSE Only({
             IF s.rc # "OK"
             THEN [fs |-> s.fs, rc |-> s.rc, inode_num |-> 0]
             ELSE FindDeleteSwap(s, r.inode, r.inode.size \div KTFS_DENSZ)
             : s \in {FindScan(r.fs, r.inode, name, r.inode.size \div KTFS_DENSZ, 0)} })
      : r \in {get_inode(fs, root_directory_inode, 0)} })

\* ktfs_delete: the loop that clears the bitmap bits of the direct blocks
RECURSIVE KtfsDeleteClear(_, _, _, _)
KtfsDeleteClear(fs, inode, i, num_blocks) ==
    IF ~(i < KTFS_NUM_DIRECT_DATA_BLOCKS /\ i < num_blocks)
    THEN [fs |-> fs, rc |-> "OK"]
    ELSE LET blk          == DataPos(inode.block[i + 1])
             block_number == blk \div (KTFS_BLKSZ * ByteBits)
             bit_in_block == blk % (KTFS_BLKSZ * ByteBits)
             byte_index   == bit_in_block \div ByteBits
             bit_offset   == bit_in_block % ByteBits
         IN  Only({
               IF g.rc # "OK"
               THEN [fs |-> FsOf(g), rc |-> g.rc]
               ELSE KtfsDeleteClear(
                      cache_release_block(
                        [g.cache EXCEPT !.block[g.blk][byte_index + 1] =
                           @ - Bit(@, bit_offset) * 2 ^ bit_offset],
                        g.disk, g.blk, 1),
                      inode, i + 1, num_blocks)
               : g \in {cache_get_block(fs.cache, fs.disk,
                                        block_number + bitmap_start_block)} })

\* ktfs_delete: the loop over the open-file table, which calls ktfs_close on
\* every entry in use that has the name
RECURSIVE KtfsDeleteClose(_, _, _)
KtfsDeleteClose(st, name, i) ==
    IF i >= MAX_OPEN_FILES THEN st
    ELSE KtfsDeleteClose(
           IF st.of[i].in_use = 1 /\ st.of[i].name = name
           THEN IoCloseOp(st, <<"file", i>>, "ktfs_delete")
           ELSE st,
           name, i + 1)

\* ktfs_delete(name); uninit is what the variable inode_number holds when
\* find_inode_by_name fails before it stores the number
ktfs_delete(st, name, uninit) ==
    Only({
      Only({
        IF f.rc = "ENOENT"
        THEN [c EXCEPT !.fs = f.fs, !.rc = "ERR1"]
        ELSE Only({
               Only({
                 [c EXCEPT !.fs = k.fs, !.rc = k.rc]
                 : k \in {KtfsDeleteClear(
                            g.fs, g.inode, 0,
                            (g.inode.size + KTFS_BLKSZ - 1) \div KTFS_BLKSZ)} })
               : g \in {get_inode(f.fs,
                                  IF f.rc = "OK" THEN f.inode_num ELSE uninit,
                                  1)} })
        : f \in {find_inode_by_name_delete(c.fs, name)} })
      : c \in {KtfsDeleteClose(st, name, 0)} })

\* fscreate(name) on the record of a call
fscreate(st, name) ==
    Only({ [st EXCEPT !.fs = r.fs, !.rc = r.rc] : r \in {ktfs_create(st.fs, name)} })

\* sysfscreate(name)
sysfscreate(st, name) ==
    Only({
      IF o.rc = "OK"
      THEN [ioclose(o, <<"sio", o.h>>) EXCEPT !.rc = "EBUSY"]
      ELSE fscreate(o, name)
      : o \in {fsopen(st, name)} })

\* sysfsdelete(name)
sysfsdelete(st, name, uninit) ==
    Only({
      IF o.rc # "OK"
      THEN [o EXCEPT !.rc = "ENOENT"]
      ELSE ktfs_delete(ioclose(o, <<"sio", o.h>>), name, uninit)
      : o \in {fsopen(st, name)} })

\* the names the image starts with are not the names of the calls
RECURSIVE DirFill(_, _)
DirFill(fs, n) ==
    IF n = 0 THEN fs ELSE DirFill(ktfs_create(fs, MaxName + n).fs, n - 1)

NoDev == [op |-> "none", name |-> 0, rc |-> "OK", h |-> 0,
          exists0 |-> FALSE, open0 |-> FALSE, held0 |-> FALSE,
          disk0 |-> <<>>, closes |-> <<>>, round |-> FALSE, image0 |-> <<>>,
          panic |-> FALSE]

\* a mounted image whose root directory has fill entries; no file is open
InitKtfsDir ==
    /\ \E rflags \in {0, 1}, fill \in 0..MaxFill :
         \E f \in {DirFill(ktfs_mount(KtfsImage(rflags)), fill)} :
            /\ cache = f.cache
            /\ disk = f.disk
    /\ open_files = [i \in Fds |-> ClosedFile]
    /\ kexpect = [i \in Fds |-> {}]
    /\ ksetend = [i \in Fds |-> FALSE]
    /\ kev = NoKev
    /\ kops = 0
    /\ pin = NULL
    /\ wrote = FALSE
    /\ shadow = <<>>
    /\ dirtied = {}
    /\ mru = <<>>
    /\ cev = NoEvent
    /\ ThreadIdle
    /\ PipeIdle
    /\ LockIdle
    /\ MemIdle
    /\ AuxIdle
    /\ sio = [h \in Sios |-> NoSio]
    /\ proctab = <<>>
    /\ iotab = <<>>
    /\ devio = <<>>
    /\ pio = <<>>
    /\ dev = NoDev

\* the record a call starts with
St == [fs |-> Fs, of |-> open_files, sio |-> sio, devio |-> devio, pio |-> pio,
       proctab |-> proctab, iotab |-> iotab,
       closes |-> <<>>, rc |-> "OK", h |-> 0, ret |-> 0, panic |-> FALSE]

\* whether the root directory has an entry with the name
DirHas(name) == find_inode_by_name(Fs, name).rc = "OK"

\* whether an I/O object returned by ktfs_open(name) is not yet closed by
\* its owner
Held(name) == \E h \in Sios : sio[h].refcnt > 0 /\ sio[h].name = name

\* whether an open-file entry in use has the name
InUse(name) == \E i \in Fds : open_files[i].in_use = 1 /\ open_files[i].name = name

\* what a directory call leaves alone
nonDirVars == <<pin, wrote, shadow, dirtied, mru, cev, kexpect, ksetend, kev,
                threadVars, pipeVars, lockVars, proctab, iotab, devio, pio,
                memVars, auxVars>>

\* the state and the history after the call op(name) with the outcome r
DirDone(op, name, r) ==
    /\ kops' = kops + 1
    /\ cache' = r.fs.cache
    /\ disk' = r.fs.disk
    /\ open_files' = r.of
    /\ sio' = r.sio
    /\ dev' = [NoDev EXCEPT !.op = op, !.name = name, !.rc = r.rc, !.h = r.h,
                            !.exists0 = DirHas(name), !.open0 = InUse(name),
                            !.held0 = Held(name), !.disk0 = disk,
                            !.closes = r.closes, !.panic = r.panic,
                            !.round = /\ op = "delete"
                                      /\ dev.op = "create"
                                      /\ dev.rc = "OK"
                                      /\ dev.name = name,
                            !.image0 = dev.disk0]
    /\ UNCHANGED nonDirVars

\* ktfs_open(name, &io) by a caller in the kernel
DOpen(name) ==
    /\ kops < DirMaxOps
    /\ \E h \in Sios : sio[h] = NoSio
    /\ DirDone("open", name, fsopen(St, name))

\* ioclose(io) by the owner of an I/O object that ktfs_open returned
DClose(h) ==
    /\ kops < DirMaxOps
    /\ sio[h].refcnt > 0
    /\ DirDone("close", sio[h].name, ioclose(St, <<"sio", h>>))

\* ktfs_create(name)
DCreate(name) ==
    /\ kops < DirMaxOps
    /\ DirDone("create", name, fscreate(St, name))

\* ktfs_delete(name)
DDelete(name) ==
    /\ kops < DirMaxOps
    /\ \E uninit \in 0..(inode_block_count * inodes_per_block - 1) :
          DirDone("delete", name, ktfs_delete(St, name, uninit))

\* the system call FSCREATE
DSysCreate(name) ==
    /\ kops < DirMaxOps
    /\ \E h \in Sios : sio[h] = NoSio
    /\ DirDone("sysfscreate", name, sysfscreate(St, name))

\* the system call FSDELETE
DSysDelete(name) ==
    /\ kops < DirMaxOps
    /\ \E h \in Sios : sio[h] = NoSio
    /\ \E uninit \in 0..(inode_block_count * inodes_per_block - 1) :
          DirDone("sysfsdelete", name, sysfsdelete(St, name, uninit))

NextKtfsDir ==
    \/ \E name \in Names : DOpen(name)
    \/ \E h \in Sios : DClose(h)
    \/ \E name \in Names : DCreate(name)
    \/ \E name \in Names : DDelete(name)
    \/ \E name \in Names : DSysCreate(name)
    \/ \E name \in Names : DSysDelete(name)

SpecKtfsDir == InitKtfsDir /\ [][NextKtfsDir]_vars

\* C14: exclusive open.  While an I/O object returned by ktfs_open(name) is
\* not yet closed by its owner, every further ktfs_open(name) returns BUSY,
\* and at most one open-file entry in use carries a given name.
C14_ExclusiveOpen ==
    /\ (dev.op = "open" /\ dev.held0) => dev.rc = "EBUSY"
    /\ \A i, j \in Fds :
         (i # j /\ open_files[i].in_use = 1 /\ open_files[j].in_use = 1)
            => open_files[i].name # open_files[j].name

\* C14, the strongest failure: a second ktfs_open(name) succeeds while the
\* first I/O object for the name is still held, so no two owners hold I/O
\* objects for one name
C14_OneOwner ==
    \A g, h \in Sios :
        (g # h /\ sio[g].refcnt > 0 /\ sio[h].refcnt > 0)
           => sio[g].name # sio[h].name

\* C15: FSCREATE on an existing name.  sysfscreate(name) returns BUSY
\* whenever a directory entry with the name exists, whether or not the file
\* is open, and then the directory, the inodes and the bitmap are unchanged.
C15_CreateExisting ==
    (dev.op = "sysfscreate" /\ dev.exists0)
       => (dev.rc = "EBUSY" /\ disk = dev.disk0)

\* C16: FSDELETE result.  sysfsdelete(name) returns NOT-FOUND exactly when
\* no directory entry with the name exists; when the entry exists, also
\* while the file is open, the open-file entry is closed, the directory
\* entry is removed and the call returns 0.
C16_DeleteResult ==
    dev.op = "sysfsdelete"
       => /\ (dev.rc = "ENOENT") <=> ~dev.exists0
          /\ dev.exists0 => /\ dev.rc = "OK"
                            /\ ~InUse(dev.name)
                            /\ ~DirHas(dev.name)

\* C17: create/delete round trip.  For every name that is not in the
\* directory and every fill level of the directory, ktfs_create(name)
\* followed by ktfs_delete(name) leaves the on-disk image equal to the image
\* before the create.
C17_CreateDeleteRoundTrip ==
    dev.round => disk = dev.image0

\* C19: close exactly at zero.  The close operation of an I/O object runs
\* only when ioclose brings the count of the object from 1 to 0, at most
\* once per open, and never while a seekable I/O object that wraps it still
\* holds a reference.
C19_CloseAtZero ==
    \A i \in 1..Len(dev.closes) :
        /\ dev.closes[i].by = "ioclose"
        /\ dev.closes[i].refcnt = 0
        /\ dev.closes[i].isopen
        /\ ~dev.closes[i].wrapped

(***************************************************************************)
(* The descriptor tables of the processes (process.c, syscall.c).  Every    *)
(* system call runs from entry to return without another process running:   *)
(* none of them waits, except process_fork, which has copied the table       *)
(* before it waits for the child.  The devices are the UART, which one      *)
(* opener can hold (uart_open), and the real-time clock, which every open    *)
(* shares (rtc_open).                                                        *)
(***************************************************************************)
\* slots of proctab (16 in process.c, scaled down)
NPROC == 2
\* descriptors of a process (scaled down)
PROCESS_IOMAX == 3
\* struct pipe objects that can exist at once
MaxPio == 1
\* system calls made
FdMaxOps == 4

Procs == 0..(NPROC - 1)

Fdnos == 0..(PROCESS_IOMAX - 1)

Pios == 1..MaxPio

Devs == {"uart", "rtc"}

\* memory that holds no struct pipe
NoPio == [live |-> FALSE, wio |-> 0, rio |-> 0, refcnt_r |-> 0, refcnt_w |-> 0]

\* the I/O objects a descriptor can point to
IoAll == {<<"sio", h>> : h \in Sios} \cup {<<"dev", d>> : d \in Devs}
            \cup {<<"wio", p>> : p \in Pios} \cup {<<"rio", p>> : p \in Pios}

\* uart_open and rtc_open through open_device: the UART is busy while it has
\* a reference
open_device(st, d) ==
    IF d = "uart" /\ st.devio[d] # 0
    THEN [st EXCEPT !.rc = "EBUSY"]
    ELSE [st EXCEPT !.devio[d] = Ulong(@ + 1), !.rc = "OK"]

\* the first free descriptor of a table, or -1
FirstFreeFd(tab) ==
    LET free == {i \in Fdnos : tab[i] = NoIo}
    IN  IF free = {} THEN 0 - 1 ELSE Min(free)

\* sysdevopen and sysfsopen after the open: the choice of the descriptor
\* and the store of the pointer, or the ioclose of the new object
SysInstall(st, p, fd, io) ==
    IF fd = 0 - 1
    THEN IF FirstFreeFd(st.iotab[p]) = 0 - 1
         THEN [ioclose(st, io) EXCEPT !.rc = "EMFILE"]
         ELSE [st EXCEPT !.iotab[p][FirstFreeFd(st.iotab[p])] = io,
                         !.rc = "OK", !.ret = FirstFreeFd(st.iotab[p])]
    ELSE IF fd < 0 \/ fd >= PROCESS_IOMAX \/ st.iotab[p][fd] # NoIo
    THEN [ioclose(st, io) EXCEPT !.rc = "EBADFD"]
    ELSE [st EXCEPT !.iotab[p][fd] = io, !.rc = "OK", !.ret = fd]

\* sysdevopen(fd, name, instno) by process p
sysdevopen(st, p, fd, d) ==
    Only({ IF o.rc # "OK" THEN o ELSE SysInstall(o, p, fd, <<"dev", d>>)
           : o \in {open_device(st, d)} })

\* sysfsopen(fd, name) by process p
sysfsopen(st, p, fd, name) ==
    Only({ IF o.rc # "OK" THEN o ELSE SysInstall(o, p, fd, <<"sio", o.h>>)
           : o \in {fsopen(st, name)} })

\* sysclose(fd) by process p
sysclose(st, p, fd) ==
    IF fd < 0 \/ fd >= PROCESS_IOMAX THEN [st EXCEPT !.rc = "EBADFD"]
    ELSE IF st.iotab[p][fd] = NoIo THEN [st EXCEPT !.rc = "EBADFD"]
    ELSE [ioclose(st, st.iotab[p][fd]) EXCEPT !.iotab[p][fd] = NoIo, !.rc = "OK"]

\* create_pipe for syspipe: kcalloc takes the first free address, or fails
SysCreatePipe(st) ==
    LET free == {x \in Pios : ~st.pio[x].live}
    IN  IF free = {} THEN [st EXCEPT !.h = 0]
        ELSE [st EXCEPT !.pio[Min(free)] =
                          [live |-> TRUE, wio |-> 1, rio |-> 1,
                           refcnt_r |-> 1, refcnt_w |-> 1],
                        !.h = Min(free)]

\* syspipe(wfdptr, rfdptr) by process p
syspipe(st, p, wfd0, rfd0) ==
    IF wfd0 = rfd0 /\ wfd0 >= 0 THEN [st EXCEPT !.rc = "EBADFD"]
    ELSE IF wfd0 >= PROCESS_IOMAX \/ rfd0 >= PROCESS_IOMAX
    THEN [st EXCEPT !.rc = "EBADFD"]
    ELSE LET tab == st.iotab[p]
             wfd == IF wfd0 < 0 THEN FirstFreeFd(tab) ELSE wfd0
             rfd == IF rfd0 < 0
                    THEN Only({ IF free = {} THEN 0 - 1 ELSE Min(free)
                                : free \in {{i \in Fdnos : i # wfd /\ tab[i] = NoIo}} })
                    ELSE rfd0
         IN  IF wfd0 < 0 /\ wfd < 0 THEN [st EXCEPT !.rc = "EMFILE"]
             ELSE IF wfd0 >= 0 /\ tab[wfd] # NoIo THEN [st EXCEPT !.rc = "EBADFD"]
             ELSE IF rfd0 < 0 /\ rfd < 0 THEN [st EXCEPT !.rc = "EMFILE"]
             ELSE IF rfd0 >= 0 /\ tab[rfd] # NoIo THEN [st EXCEPT !.rc = "EBADFD"]
             ELSE IF wfd = rfd THEN [st EXCEPT !.rc = "EBADFD"]
             ELSE Only({ IF c.h = 0 THEN [c EXCEPT !.rc = "EMFILE"]
                         ELSE [c EXCEPT !.iotab[p][wfd] = <<"wio", c.h>>,
                                        !.iotab[p][rfd] = <<"rio", c.h>>,
                                        !.rc = "OK"]
                         : c \in {SysCreatePipe(st)} })

\* sysiodup(oldfd, newfd) by process p
sysiodup(st, p, oldfd, newfd0) ==
    IF oldfd < 0 \/ oldfd >= PROCESS_IOMAX THEN [st EXCEPT !.rc = "EBADFD"]
    ELSE IF st.iotab[p][oldfd] = NoIo THEN [st EXCEPT !.rc = "EBADFD"]
    ELSE IF newfd0 = oldfd THEN [st EXCEPT !.rc = "OK", !.ret = oldfd]
    ELSE LET oldio == st.iotab[p][oldfd]
             newfd == IF newfd0 = 0 - 1 THEN FirstFreeFd(st.iotab[p]) ELSE newfd0
         IN  IF newfd = 0 - 1 THEN [st EXCEPT !.rc = "EMFILE"]
             ELSE IF newfd < 0 \/ newfd >= PROCESS_IOMAX
             THEN [st EXCEPT !.rc = "EBADFD"]
             ELSE Only({ [ioaddref(c, oldio) EXCEPT !.iotab[p][newfd] = oldio,
                                                    !.rc = "OK", !.ret = newfd]
                         : c \in {IF st.iotab[p][newfd] # NoIo
                                  THEN [ioclose(st, st.iotab[p][newfd])
                                          EXCEPT !.iotab[p][newfd] = NoIo]
                                  ELSE st} })

\* process_fork: the loop that copies the table of the parent p to the
\* child c from descriptor i on
RECURSIVE ForkCopy(_, _, _, _)
ForkCopy(st, p, c, i) ==
    IF i >= PROCESS_IOMAX THEN st
    ELSE ForkCopy(IF st.iotab[p][i] # NoIo
                  THEN [ioaddref(st, st.iotab[p][i])
                          EXCEPT !.iotab[c][i] = st.iotab[p][i]]
                  ELSE st,
                  p, c, i + 1)

\* process_fork by process p: the child takes the first free slot of
\* proctab, its table starts empty (kcalloc)
process_fork(st, p) ==
    LET c == Min({i \in Procs : ~st.proctab[i]})
    IN  [ForkCopy([st EXCEPT !.proctab[c] = TRUE,
                             !.iotab[c] = [i \in Fdnos |-> NoIo]],
                  p, c, 0)
           EXCEPT !.rc = "OK", !.ret = c]

\* process_exit: the loop that closes the descriptors from i on
RECURSIVE ExitClose(_, _, _)
ExitClose(st, p, i) ==
    IF i >= PROCESS_IOMAX THEN st
    ELSE ExitClose(IF st.iotab[p][i] # NoIo THEN ioclose(st, st.iotab[p][i]) ELSE st,
                   p, i + 1)

\* process_exit by process p, which is not the main process
process_exit(st, p) ==
    [ExitClose(st, p, 0) EXCEPT !.proctab[p] = FALSE, !.rc = "OK"]

\* the image of the descriptor calls has a file for every name of Names
RECURSIVE FdFill(_, _)
FdFill(fs, n) ==
    IF n = 0 THEN fs ELSE FdFill(ktfs_create(fs, n).fs, n - 1)

\* the main process alone, with an empty table; no device is open
InitFd ==
    /\ \E rflags \in {1} :
         \E f \in {FdFill(ktfs_mount(KtfsImage(rflags)), MaxName)} :
            /\ cache = f.cache
            /\ disk = f.disk
    /\ open_files = [i \in Fds |-> ClosedFile]
    /\ kexpect = [i \in Fds |-> {}]
    /\ ksetend = [i \in Fds |-> FALSE]
    /\ kev = NoKev
    /\ kops = 0
    /\ pin = NULL
    /\ wrote = FALSE
    /\ shadow = <<>>
    /\ dirtied = {}
    /\ mru = <<>>
    /\ cev = NoEvent
    /\ ThreadIdle
    /\ PipeIdle
    /\ LockIdle
    /\ MemIdle
    /\ AuxIdle
    /\ sio = [h \in Sios |-> NoSio]
    /\ proctab = [p \in Procs |-> p = 0]
    /\ iotab = [p \in Procs |-> [i \in Fdnos |-> NoIo]]
    /\ devio = [d \in Devs |-> 0]
    /\ pio = [p \in Pios |-> NoPio]
    /\ dev = NoDev

\* the number of descriptors of processes in proctab that point to io
SlotCount(ptab, tab, io) ==
    Cardinality({pf \in Procs \X Fdnos : ptab[pf[1]] /\ tab[pf[1]][pf[2]] = io})

\* the counts of the objects a descriptor can point to
Refcnts(st) == [io \in IoAll |-> IoRefcnt(st, io)]

\* what a descriptor call leaves alone
nonFdVars == <<pin, wrote, shadow, dirtied, mru, cev, kexpect, ksetend, kev,
               threadVars, pipeVars, lockVars, memVars,
               auxVars>>

\* the state and the history after the system call op of process p with the
\* outcome r
FdDone(op, p, r) ==
    /\ kops' = kops + 1
    /\ cache' = r.fs.cache
    /\ disk' = r.fs.disk
    /\ open_files' = r.of
    /\ sio' = r.sio
    /\ proctab' = r.proctab
    /\ iotab' = r.iotab
    /\ devio' = r.devio
    /\ pio' = r.pio
    /\ dev' = [NoDev EXCEPT !.op = op, !.name = p, !.rc = r.rc, !.h = r.ret,
                            !.closes = r.closes, !.panic = r.panic]
    /\ UNCHANGED nonFdVars

\* a process in proctab makes a system call
FdCall(p) == kops < FdMaxOps /\ proctab[p] /\ ~dev.panic

FdArgs == (0 - 1)..PROCESS_IOMAX

DevOpen(p, fd, d) ==
    /\ FdCall(p)
    /\ FdDone("sysdevopen", p, sysdevopen(St, p, fd, d))

FsOpen(p, fd, name) ==
    /\ FdCall(p)
    /\ \E h \in Sios : sio[h] = NoSio
    /\ FdDone("sysfsopen", p, sysfsopen(St, p, fd, name))

Close(p, fd) ==
    /\ FdCall(p)
    /\ FdDone("sysclose", p, sysclose(St, p, fd))

Pipe(p, wfd, rfd) ==
    /\ FdCall(p)
    /\ FdDone("syspipe", p, syspipe(St, p, wfd, rfd))

IoDup(p, oldfd, newfd) ==
    /\ FdCall(p)
    /\ FdDone("sysiodup", p, sysiodup(St, p, oldfd, newfd))

Fork(p) ==
    /\ FdCall(p)
    /\ \E c \in Procs : ~proctab[c]
    /\ FdDone("fork", p, process_fork(St, p))

ProcExit(p) ==
    /\ FdCall(p)
    /\ p # 0
    /\ FdDone("exit", p, process_exit(St, p))

NextFd ==
    \/ \E p \in Procs, fd \in FdArgs, d \in Devs : DevOpen(p, fd, d)
    \/ \E p \in Procs, fd \in FdArgs, name \in 1..(MaxName + 1) : FsOpen(p, fd, name)
    \/ \E p \in Procs, fd \in FdArgs : Close(p, fd)
    \/ \E p \in Procs, wfd \in FdArgs, rfd \in FdArgs : Pipe(p, wfd, rfd)
    \/ \E p \in Procs, oldfd \in FdArgs, newfd \in FdArgs : IoDup(p, oldfd, newfd)
    \/ \E p \in Procs : Fork(p)
    \/ \E p \in Procs : ProcExit(p)

SpecFd == InitFd /\ [][NextFd]_vars

\* the number of descriptors that point to each object
FdSlots == [io \in IoAll |-> SlotCount(proctab, iotab, io)]

PTE_CNT == 3

\* pages in the free page pool between the end of the heap and RAM_END
MemPool == 14

\* address spaces that exist at a time, the main one included
MaxSpaces == 3

\* the largest byte a user program stores
MaxVal == 1

\* memory operations per behaviour
MemMaxOps == 5

PteIdx == 0..(PTE_CNT - 1)

\* the flag bits of struct pte
PTE_V == "V"
PTE_R == "R"
PTE_W == "W"
PTE_X == "X"
PTE_U == "U"
PTE_G == "G"
PTE_A == "A"
PTE_D == "D"

\* the eight bits of the flags field
PteFlags == {PTE_V, PTE_R, PTE_W, PTE_X, PTE_U, PTE_G, PTE_A, PTE_D}

PTE_VALID(pte) == PTE_V \in pte.flags
PTE_GLOBAL(pte) == PTE_G \in pte.flags
PTE_LEAF(pte) == pte.flags \cap {PTE_R, PTE_W, PTE_X} # {}

\* page numbers: 0 is NULL, then the three static tables of the main space,
\* one page of the kernel image, and the free page pool
main_pt2 == 1
main_pt1_0x80000 == 2
main_pt0_0x80000 == 3
KimgPage == 4
PoolStart == KimgPage + 1
PhysPages == 1..(KimgPage + MemPool)

\* a virtual address is counted in pages (VPN(vma) of the source)
VPN2(vma) == (vma \div (PTE_CNT * PTE_CNT)) % PTE_CNT
VPN1(vma) == (vma \div PTE_CNT) % PTE_CNT
VPN0(vma) == vma % PTE_CNT

\* the root entries: MMIO gigapage, RAM, user memory
MmioVpn2 == 0
RamVpn2 == 1
UmemVpn2 == 2

\* the kernel image page and the last user page (UMEM_END_VMA - PAGE_SIZE)
GIGA_SIZE == PTE_CNT * PTE_CNT
KimgVma == RamVpn2 * GIGA_SIZE
UMEM_START_VMA == UmemVpn2 * GIGA_SIZE
UMEM_END_VMA == UMEM_START_VMA + GIGA_SIZE
StackVma == UMEM_END_VMA - 1

\* the user pages the programs touch
UserVmas == {UMEM_START_VMA, UMEM_START_VMA + 1, UMEM_START_VMA + PTE_CNT, StackVma}

null_pte == [flags |-> {}, ppn |-> 0]

leaf_pte(pp, rwxug_flags) ==
    [flags |-> rwxug_flags \cup {PTE_A, PTE_D, PTE_V}, ppn |-> pp]

\* leaf_pte without the accessed, dirty and valid bits
leaf_pte_bare(pp, rwxug_flags) == [flags |-> rwxug_flags, ppn |-> pp]

ptab_pte(pt, g_flag) == [flags |-> g_flag \cup {PTE_V}, ppn |-> pt]

\* memset(pt, 0, PAGE_SIZE) on a table
ZeroTable == [i \in PteIdx |-> null_pte]

\* the byte a free chunk's header leaves in its first page
ChunkMark == MaxVal + 1

\* free_phys_page_count()
RECURSIVE ChunkPages(_)
ChunkPages(list) ==
    IF list = <<>> THEN 0 ELSE Head(list).pagecnt + ChunkPages(Tail(list))

free_phys_page_count(m) == ChunkPages(m.free)

\* the position of the smallest chunk of at least cnt pages, the first of
\* equals, 0 if there is none
BestChunk(list, cnt) ==
    LET fits == {i \in 1..Len(list) : list[i].pagecnt >= cnt}
    IN  IF fits = {} THEN 0
        ELSE CHOOSE i \in fits :
                \A j \in fits : \/ list[i].pagecnt < list[j].pagecnt
                                \/ (list[i].pagecnt = list[j].pagecnt /\ i <= j)

\* alloc_phys_pages(cnt): the memory after it and the page, 0 for NULL
alloc_phys_pages(m, cnt) ==
    IF cnt = 0 \/ cnt > free_phys_page_count(m)
    THEN [m |-> m, pp |-> 0]
    ELSE LET b == BestChunk(m.free, cnt)
             best == m.free[b]
         IN  IF b = 0
             THEN [m |-> [m EXCEPT !.panic = TRUE], pp |-> 0]
             ELSE IF best.pagecnt = cnt
             THEN [m |-> [m EXCEPT !.free = SubSeq(m.free, 1, b - 1)
                                             \o SubSeq(m.free, b + 1, Len(m.free))],
                   pp |-> best.start]
             ELSE [m |-> [m EXCEPT !.free[b] = [start |-> best.start + cnt,
                                                pagecnt |-> best.pagecnt - cnt],
                                   !.ram[best.start + cnt] = ChunkMark],
                   pp |-> best.start]

alloc_phys_page(m) == alloc_phys_pages(m, 1)

\* a free_phys_pages that links the chunk into the list twice
free_phys_pages_twice(m, pp, cnt) ==
    IF pp = 0 \/ cnt = 0 THEN m
    ELSE [m EXCEPT !.free = <<[start |-> pp, pagecnt |-> cnt],
                              [start |-> pp, pagecnt |-> cnt]>> \o m.free,
                   !.ram[pp] = ChunkMark]

\* free_phys_pages(pp, cnt): the chunk goes to the head of the list
free_phys_pages(m, pp, cnt) ==
    IF pp = 0 \/ cnt = 0 THEN m
    ELSE [m EXCEPT !.free = <<[start |-> pp, pagecnt |-> cnt]>> \o m.free,
                   !.ram[pp] = ChunkMark]

free_phys_page(m, pp) == free_phys_pages(m, pp, 1)

\* the table that entry i of the table pt points to; map_page allocates,
\* zeroes and links a new one when the entry is not valid (pp 0: no page)
SubTable(m, pt, i) ==
    IF PTE_VALID(m.ptab[pt][i]) THEN [m |-> m, pp |-> m.ptab[pt][i].ppn]
    ELSE Only({
           IF a.pp = 0 THEN a
           ELSE [m |-> [a.m EXCEPT !.ptab[a.pp] = ZeroTable,
                                   !.ptab[pt][i] = ptab_pte(a.pp, {})],
                 pp |-> a.pp]
           : a \in {alloc_phys_page(m)} })

\* map_page(vma, pp, rwxug_flags) in the active space: missing tables are
\* allocated, a page already mapped is refused
map_page(m, vma, pp, rwxug_flags) ==
    IF pp = 0 THEN [m |-> m, ok |-> FALSE]
    ELSE Only({
           IF t1.pp = 0 THEN [m |-> t1.m, ok |-> FALSE]
           ELSE Only({
                  IF t0.pp = 0 THEN [m |-> t0.m, ok |-> FALSE]
                  ELSE IF PTE_VALID(t0.m.ptab[t0.pp][VPN0(vma)])
                  THEN [m |-> t0.m, ok |-> FALSE]
                  ELSE [m |-> [t0.m EXCEPT !.ptab[t0.pp][VPN0(vma)] =
                                              leaf_pte(pp, rwxug_flags)],
                        ok |-> TRUE]
                  : t0 \in {SubTable(t1.m, t1.pp, VPN1(vma))} })
           : t1 \in {SubTable(m, m.satp, VPN2(vma))} })

\* the level 0 table of vma in the space of root, 0 if a table is missing
\* (the walk of set_range_flags, unmap_and_free_range and validate_vptr)
WalkPt0(m, root, vma) ==
    IF ~PTE_VALID(m.ptab[root][VPN2(vma)]) THEN 0
    ELSE LET pt1 == m.ptab[root][VPN2(vma)].ppn
         IN  IF ~PTE_VALID(m.ptab[pt1][VPN1(vma)]) THEN 0
             ELSE m.ptab[pt1][VPN1(vma)].ppn

\* the level 0 entry of vma in the space of root
WalkPte(m, root, vma) ==
    LET pt0 == WalkPt0(m, root, vma)
    IN  IF pt0 = 0 THEN null_pte ELSE m.ptab[pt0][VPN0(vma)]

\* one page of set_range_flags: a valid leaf gets the flags
SetFlags(m, vma, rwxug_flags) ==
    LET pt0 == WalkPt0(m, m.satp, vma)
        pte == WalkPte(m, m.satp, vma)
    IN  IF pt0 # 0 /\ PTE_VALID(pte) /\ PTE_LEAF(pte)
        THEN [m EXCEPT !.ptab[pt0][VPN0(vma)].flags =
                           rwxug_flags \cup {PTE_A, PTE_D, PTE_V}]
        ELSE m

\* set_range_flags(vp, size, rwxug_flags) over pages pages
RECURSIVE set_range_flags(_, _, _, _)
set_range_flags(m, vma, pages, rwxug_flags) ==
    IF pages = 0 THEN m
    ELSE Only({ set_range_flags(n, vma + 1, pages - 1, rwxug_flags)
                : n \in {SetFlags(m, vma, rwxug_flags)} })

\* one page of unmap_and_free_range: a valid leaf's page is freed and the
\* entry cleared
UnmapFree(m, vma) ==
    LET pt0 == WalkPt0(m, m.satp, vma)
        pte == WalkPte(m, m.satp, vma)
    IN  IF pt0 # 0 /\ PTE_VALID(pte) /\ PTE_LEAF(pte)
        THEN [free_phys_page(m, pte.ppn) EXCEPT !.ptab[pt0][VPN0(vma)] = null_pte]
        ELSE m

\* unmap_and_free_range(vp, size) over pages pages
RECURSIVE unmap_and_free_range(_, _, _)
unmap_and_free_range(m, vma, pages) ==
    IF pages = 0 THEN m
    ELSE Only({ unmap_and_free_range(n, vma + 1, pages - 1)
                : n \in {UnmapFree(m, vma)} })

\* the loop of alloc_and_map_range from page i on
RECURSIVE AllocMapLoop(_, _, _, _, _)
AllocMapLoop(m, vma, pages, rwxug_flags, i) ==
    IF i = pages THEN [m |-> m, ok |-> TRUE]
    ELSE Only({
           IF a.pp = 0
           THEN [m |-> unmap_and_free_range(a.m, vma, i), ok |-> FALSE]
           ELSE Only({
                  IF ~r.ok
                  THEN Only({ [m |-> unmap_and_free_range(f, vma, i), ok |-> FALSE]
                              : f \in {free_phys_page(r.m, a.pp)} })
                  ELSE AllocMapLoop(r.m, vma, pages, rwxug_flags, i + 1)
                  : r \in {map_page(a.m, vma + i, a.pp, rwxug_flags)} })
           : a \in {alloc_phys_page(m)} })

alloc_and_map_range(m, vma, pages, rwxug_flags) ==
    IF pages = 0 THEN [m |-> m, ok |-> FALSE]
    ELSE AllocMapLoop(m, vma, pages, rwxug_flags, 0)

\* handle_umode_page_fault(tfr, vma)
handle_umode_page_fault(m, vma) ==
    IF vma < UMEM_START_VMA \/ vma >= UMEM_END_VMA THEN [m |-> m, ok |-> FALSE]
    ELSE Only({
           IF a.pp = 0 THEN [m |-> a.m, ok |-> FALSE]
           ELSE Only({
                  IF ~r.ok THEN [m |-> free_phys_page(r.m, a.pp), ok |-> FALSE]
                  ELSE r
                  : r \in {map_page(a.m, vma, a.pp, {PTE_R, PTE_W, PTE_U})} })
           : a \in {alloc_phys_page(m)} })

\* one entry of the level 0 loop of reset_active_mspace: a non-global leaf's
\* page is freed and the entry cleared
ResetEntry(m, pt0, i0) ==
    LET pte0 == m.ptab[pt0][i0]
    IN  IF ~PTE_VALID(pte0) \/ ~PTE_LEAF(pte0) \/ PTE_GLOBAL(pte0) THEN m
        ELSE [free_phys_page(m, pte0.ppn) EXCEPT !.ptab[pt0][i0] = null_pte]

RECURSIVE ResetL0(_, _, _)
ResetL0(m, pt0, i0) ==
    IF i0 = PTE_CNT THEN m
    ELSE Only({ ResetL0(n, pt0, i0 + 1) : n \in {ResetEntry(m, pt0, i0)} })

\* the level 1 loop: invalid entries and megapages are skipped
RECURSIVE ResetL1(_, _, _)
ResetL1(m, pt1, i1) ==
    IF i1 = PTE_CNT THEN m
    ELSE Only({ ResetL1(n, pt1, i1 + 1)
                : n \in {IF ~PTE_VALID(m.ptab[pt1][i1]) \/ PTE_LEAF(m.ptab[pt1][i1])
                         THEN m
                         ELSE ResetL0(m, m.ptab[pt1][i1].ppn, 0)} })

\* the root loop: invalid entries and gigapages are skipped
RECURSIVE ResetL2(_, _, _)
ResetL2(m, pt2, i2) ==
    IF i2 = PTE_CNT THEN m
    ELSE Only({ ResetL2(n, pt2, i2 + 1)
                : n \in {IF ~PTE_VALID(m.ptab[pt2][i2]) \/ PTE_LEAF(m.ptab[pt2][i2])
                         THEN m
                         ELSE ResetL1(m, m.ptab[pt2][i2].ppn, 0)} })

reset_active_mspace(m) == ResetL2(m, m.satp, 0)

\* switch_mspace(mtag)
switch_mspace(m, mtag) == [m EXCEPT !.satp = mtag]

\* discard_active_mspace()
discard_active_mspace(m) ==
    Only({ switch_mspace(n, main_pt2) : n \in {reset_active_mspace(m)} })

\* a level 0 loop that shares every entry of the old table
CloneL0_share(m, old_pt0, new_pt0, i0) ==
    [m EXCEPT !.ptab[new_pt0] = m.ptab[old_pt0]]

\* one entry of the level 0 loop of clone_active_mspace: a global entry is
\* shared, any other valid entry gets a new page with a copy of the old
\* page's bytes
CloneEntry0(m, old_pt0, new_pt0, i0) ==
    LET pte0 == m.ptab[old_pt0][i0]
    IN  IF ~PTE_VALID(pte0) THEN m
        ELSE IF PTE_GLOBAL(pte0) THEN [m EXCEPT !.ptab[new_pt0][i0] = pte0]
        ELSE Only({
               IF a.pp = 0 THEN [a.m EXCEPT !.panic = TRUE]
               ELSE [a.m EXCEPT !.ram[a.pp] = a.m.ram[pte0.ppn],
                                !.ptab[new_pt0][i0] =
                                    leaf_pte(a.pp, pte0.flags \cap PteFlags)]
               : a \in {alloc_phys_page(m)} })

\* the level 0 loop of clone_active_mspace
RECURSIVE CloneL0(_, _, _, _)
CloneL0(m, old_pt0, new_pt0, i0) ==
    IF i0 = PTE_CNT \/ m.panic THEN m
    ELSE Only({ CloneL0(n, old_pt0, new_pt0, i0 + 1)
                : n \in {CloneEntry0(m, old_pt0, new_pt0, i0)} })

\* one entry of the level 1 loop: a megapage or a global entry is shared,
\* any other valid entry gets a new level 0 table
CloneEntry1(m, old_pt1, new_pt1, i1) ==
    LET pte1 == m.ptab[old_pt1][i1]
    IN  IF ~PTE_VALID(pte1) THEN m
        ELSE IF PTE_LEAF(pte1) \/ PTE_GLOBAL(pte1)
        THEN [m EXCEPT !.ptab[new_pt1][i1] = pte1]
        ELSE Only({
               IF a.pp = 0 THEN [a.m EXCEPT !.panic = TRUE]
               ELSE Only({ CloneL0(n, pte1.ppn, a.pp, 0)
                           : n \in {[a.m EXCEPT !.ptab[a.pp] = ZeroTable,
                                                !.ptab[new_pt1][i1] =
                                                    ptab_pte(a.pp, {})]} })
               : a \in {alloc_phys_page(m)} })

\* the level 1 loop of clone_active_mspace
RECURSIVE CloneL1(_, _, _, _)
CloneL1(m, old_pt1, new_pt1, i1) ==
    IF i1 = PTE_CNT \/ m.panic THEN m
    ELSE Only({ CloneL1(n, old_pt1, new_pt1, i1 + 1)
                : n \in {CloneEntry1(m, old_pt1, new_pt1, i1)} })

\* one entry of the root loop: a gigapage or a global entry is shared, any
\* other valid entry gets a new level 1 table
CloneEntry2(m, old_pt2, new_pt2, i2) ==
    LET pte2 == m.ptab[old_pt2][i2]
    IN  IF ~PTE_VALID(pte2) THEN m
        ELSE IF PTE_LEAF(pte2) \/ PTE_GLOBAL(pte2)
        THEN [m EXCEPT !.ptab[new_pt2][i2] = pte2]
        ELSE Only({
               IF a.pp = 0 THEN [a.m EXCEPT !.panic = TRUE]
               ELSE Only({ CloneL1(n, pte2.ppn, a.pp, 0)
                           : n \in {[a.m EXCEPT !.ptab[a.pp] = ZeroTable,
                                                !.ptab[new_pt2][i2] =
                                                    ptab_pte(a.pp, {})]} })
               : a \in {alloc_phys_page(m)} })

\* the root loop of clone_active_mspace
RECURSIVE CloneL2(_, _, _, _)
CloneL2(m, old_pt2, new_pt2, i2) ==
    IF i2 = PTE_CNT \/ m.panic THEN m
    ELSE Only({ CloneL2(n, old_pt2, new_pt2, i2 + 1)
                : n \in {CloneEntry2(m, old_pt2, new_pt2, i2)} })

\* clone_active_mspace(): the memory after it and the new space's root, 0
\* when not even the root could be allocated
clone_active_mspace(m) ==
    Only({
      IF a.pp = 0 THEN [m |-> a.m, mtag |-> 0]
      ELSE Only({ [m |-> c, mtag |-> IF c.panic THEN 0 ELSE a.pp]
                  : c \in {Only({ CloneL2(n, m.satp, a.pp, 0)
                                  : n \in {[a.m EXCEPT !.ptab[a.pp] = ZeroTable]} })} })
      : a \in {alloc_phys_page(m)} })

\* a loadable segment of an executable: first page, pages, the byte the file
\* holds for it, and whether PF_X is set
Segments ==
    {[vaddr |-> UMEM_START_VMA, pages |-> 2, byte |-> 1, x |-> TRUE],
     [vaddr |-> UMEM_START_VMA, pages |-> 1, byte |-> 0, x |-> TRUE],
     [vaddr |-> UMEM_START_VMA + PTE_CNT, pages |-> 1, byte |-> 1, x |-> FALSE]}

\* the executables: one or two segments
Images == {<<s>> : s \in Segments} \cup
          {<<s, t>> : s \in Segments, t \in {u \in Segments : u.x = FALSE}}

\* ioreadat(elfio, p_offset, p_vaddr, p_filesz): the file's bytes stored
\* through the active space
RECURSIVE ElfRead(_, _, _, _)
ElfRead(m, vma, pages, byte) ==
    IF pages = 0 THEN m
    ELSE Only({ ElfRead(n, vma + 1, pages - 1, byte)
                : n \in {[m EXCEPT !.ram[WalkPte(m, m.satp, vma).ppn] = byte]} })

\* one program header of elf_load: the pages are mapped readable and
\* writable, filled from the file, and given the segment's flags
ElfSegment(m, phdr) ==
    Only({
      IF ~a.ok THEN a
      ELSE Only({ [m |-> set_range_flags(
                            n, phdr.vaddr, phdr.pages,
                            {PTE_R, PTE_W, PTE_U}
                               \cup (IF phdr.x THEN {PTE_X} ELSE {})),
                   ok |-> TRUE]
                  : n \in {ElfRead(a.m, phdr.vaddr, phdr.pages, phdr.byte)} })
      : a \in {alloc_and_map_range(m, phdr.vaddr, phdr.pages,
                                   {PTE_R, PTE_W, PTE_U})} })

\* elf_load(elfio, &entry): the loop over the program headers
RECURSIVE elf_load(_, _)
elf_load(m, img) ==
    IF img = <<>> THEN [m |-> m, ok |-> TRUE]
    ELSE Only({ IF ~s.ok THEN s ELSE elf_load(s.m, Tail(img))
                : s \in {ElfSegment(m, Head(img))} })

\* process_exec(exeio, argc, argv), its use of memory: the argument page,
\* the reset of the active space, the load and the stack mapping
process_exec(m, img) ==
    Only({
      IF a.pp = 0 THEN [m |-> a.m, ok |-> FALSE]
      ELSE Only({
             IF ~l.ok THEN [m |-> free_phys_page(l.m, a.pp), ok |-> FALSE]
             ELSE Only({
                    IF ~s.ok THEN [m |-> free_phys_page(s.m, a.pp), ok |-> FALSE]
                    ELSE s
                    : s \in {map_page(l.m, StackVma, a.pp, {PTE_R, PTE_W, PTE_U})} })
             : l \in {Only({ elf_load(n, img)
                             : n \in {reset_active_mspace(
                                        [a.m EXCEPT !.ram[a.pp] = MaxVal])} })} })
      : a \in {alloc_phys_page(m)} })

\* the main space memory_init builds: the MMIO gigapage, the RAM subtable
\* with the kernel image's pages and the megapages of the rest of RAM
MainTables ==
    [p \in PhysPages |->
        IF p = main_pt2
        THEN [i \in PteIdx |->
                IF i = MmioVpn2 THEN leaf_pte(0, {PTE_R, PTE_W, PTE_G})
                ELSE IF i = RamVpn2 THEN ptab_pte(main_pt1_0x80000, {PTE_G})
                ELSE null_pte]
        ELSE IF p = main_pt1_0x80000
        THEN [i \in PteIdx |->
                IF i = 0 THEN ptab_pte(main_pt0_0x80000, {PTE_G})
                ELSE leaf_pte(KimgPage + i * PTE_CNT, {PTE_R, PTE_W, PTE_G})]
        ELSE IF p = main_pt0_0x80000
        THEN [i \in PteIdx |->
                IF i = 0 THEN leaf_pte(KimgPage, {PTE_R, PTE_X, PTE_G})
                ELSE leaf_pte(KimgPage + i, {PTE_R, PTE_W, PTE_G})]
        ELSE ZeroTable]

NoMev == [op |-> "none", ok |-> TRUE, vma |-> 0, parent |-> 0, child |-> 0,
          m0 |-> <<>>, panic |-> FALSE, n |-> 0]

\* the state after memory_init and procmgr_init
InitMem ==
    /\ ptes = MainTables
    /\ ram = [p \in PhysPages |-> IF p = PoolStart THEN ChunkMark ELSE 0]
    /\ free_chunk_list = <<[start |-> PoolStart, pagecnt |-> MemPool]>>
    /\ satp = main_pt2
    /\ mspaces = {main_pt2}
    /\ mev = NoMev
    /\ CacheIdle
    /\ KtfsIdle
    /\ ThreadIdle
    /\ PipeIdle
    /\ LockIdle
    /\ SysIdle
    /\ AuxIdle

\* the memory as the operators take it
Mem == [ptab |-> ptes, ram |-> ram, free |-> free_chunk_list, satp |-> satp,
        panic |-> FALSE]

\* what a memory operation leaves alone
nonMemVars == <<cacheVars, ktfsVars, threadVars, pipeVars, lockVars, sysVars,
               auxVars>>

\* the state and the history after the operation op with the memory r
MemDone(op, ok, vma, child, spaces, r, keep) ==
    /\ ptes' = r.ptab
    /\ ram' = r.ram
    /\ free_chunk_list' = r.free
    /\ satp' = r.satp
    /\ mspaces' = spaces
    /\ mev' = [op |-> op, ok |-> ok, vma |-> vma, parent |-> satp,
               child |-> child, m0 |-> IF keep THEN Mem ELSE <<>>,
               panic |-> r.panic, n |-> mev.n + 1]
    /\ UNCHANGED nonMemVars

\* a memory operation can be made: the kernel has not stopped
MemCall == mev.n < MemMaxOps /\ ~mev.panic

\* a user program touches a page that is not mapped
MFault(vma) ==
    /\ MemCall
    /\ \E r \in {handle_umode_page_fault(Mem, vma)} :
          MemDone("fault", r.ok, vma, 0, mspaces, r.m, FALSE)

\* the running process executes an image; when process_exec fails its
\* thread exits: the main thread's exit halts the kernel, after another
\* thread's exit the scheduler resumes a thread of another process
MExec(img) ==
    /\ MemCall
    /\ \E r \in {process_exec(Mem, img)} :
          IF r.ok THEN MemDone("exec", TRUE, 0, 0, mspaces, r.m, FALSE)
          ELSE IF satp = main_pt2
          THEN MemDone("exec", FALSE, 0, 0, mspaces,
                       [r.m EXCEPT !.panic = TRUE], FALSE)
          ELSE \E next \in mspaces \ {satp} :
                  MemDone("exec", FALSE, 0, 0, mspaces \ {satp},
                          switch_mspace(r.m, next), FALSE)

\* a store to a user page that the active space maps writable
MWrite(vma, val) ==
    /\ MemCall
    /\ \E pte \in {WalkPte(Mem, satp, vma)} :
          /\ PTE_VALID(pte) /\ PTE_LEAF(pte) /\ PTE_W \in pte.flags
          /\ MemDone("write", TRUE, vma, 0, mspaces,
                     [Mem EXCEPT !.ram[pte.ppn] = val], TRUE)

\* process_fork: the running process's space is cloned for the child
MClone ==
    /\ MemCall
    /\ Cardinality(mspaces) < MaxSpaces
    /\ \E r \in {clone_active_mspace(Mem)} :
          MemDone("clone", r.mtag # 0, 0, r.mtag,
                  IF r.mtag # 0 THEN mspaces \cup {r.mtag} ELSE mspaces,
                  r.m, TRUE)

\* the scheduler resumes a thread of another process
MSwitch(mtag) ==
    /\ MemCall
    /\ mtag \in mspaces \ {satp}
    /\ MemDone("switch", TRUE, 0, 0, mspaces, switch_mspace(Mem, mtag), FALSE)

\* process_exit of a process other than the main one
MExit ==
    /\ MemCall
    /\ satp # main_pt2
    /\ MemDone("exit", TRUE, 0, 0, mspaces \ {satp},
               discard_active_mspace(Mem), FALSE)

NextMem ==
    \/ \E vma \in UserVmas : MFault(vma)
    \/ \E img \in Images : MExec(img)
    \/ \E vma \in UserVmas, val \in 0..MaxVal : MWrite(vma, val)
    \/ MClone
    \/ \E mtag \in PhysPages : MSwitch(mtag)
    \/ MExit

SpecMem == InitMem /\ [][NextMem]_vars

\* all virtual pages, and the user ones
AllVmas == 0..(PTE_CNT * GIGA_SIZE - 1)
UmemVmas == UMEM_START_VMA..(UMEM_END_VMA - 1)

\* the 4 KiB leaf the hardware walk of vma in the space of root ends in,
\* null_pte if the walk ends earlier
Leaf4K(m, root, vma) ==
    LET pte2 == m.ptab[root][VPN2(vma)]
        pte1 == m.ptab[pte2.ppn][VPN1(vma)]
        pte0 == m.ptab[pte1.ppn][VPN0(vma)]
    IN  IF ~PTE_VALID(pte2) \/ PTE_LEAF(pte2) THEN null_pte
        ELSE IF ~PTE_VALID(pte1) \/ PTE_LEAF(pte1) THEN null_pte
        ELSE IF ~PTE_VALID(pte0) \/ ~PTE_LEAF(pte0) THEN null_pte
        ELSE pte0

\* whether a table pointer on the walk of vma is global
PathGlobal(m, root, vma) ==
    LET pte2 == m.ptab[root][VPN2(vma)]
    IN  \/ PTE_GLOBAL(pte2)
        \/ PTE_GLOBAL(m.ptab[pte2.ppn][VPN1(vma)])

\* whether vma has a valid non-global 4 KiB leaf in the space of root
PrivateLeaf(m, root, vma) ==
    /\ PTE_VALID(Leaf4K(m, root, vma))
    /\ ~PTE_GLOBAL(Leaf4K(m, root, vma))
    /\ ~PathGlobal(m, root, vma)

\* the page-table pages of the space of root on non-global paths
TablesOf(m, root) ==
    LET l1 == {m.ptab[root][i].ppn : i \in
                 {j \in PteIdx : /\ PTE_VALID(m.ptab[root][j])
                                 /\ ~PTE_LEAF(m.ptab[root][j])
                                 /\ ~PTE_GLOBAL(m.ptab[root][j])}}
        l0 == UNION {{m.ptab[t][i].ppn : i \in
                        {j \in PteIdx : /\ PTE_VALID(m.ptab[t][j])
                                        /\ ~PTE_LEAF(m.ptab[t][j])
                                        /\ ~PTE_GLOBAL(m.ptab[t][j])}} : t \in l1}
    IN  {root} \cup l1 \cup l0

\* the pages on the free chunk list
FreePages(list) ==
    UNION {list[i].start..(list[i].start + list[i].pagecnt - 1) : i \in 1..Len(list)}

\* what a load from vma in the space of root gives: the flags and the byte
View(m, root, vma) ==
    LET pte == Leaf4K(m, root, vma)
    IN  IF PTE_VALID(pte) THEN [flags |-> pte.flags, byte |-> m.ram[pte.ppn]]
        ELSE [flags |-> {}, byte |-> 0]

\* C20: address-space clone isolation.  After clone_active_mspace, every
\* virtual page with a valid non-global 4 KiB leaf in the parent space is
\* mapped by the clone with the same flags to a different page that was on
\* the free list before the call and holds the bytes the parent's page held
\* at the call; the parent's leaf and page are as before; the clone's
\* page is the page of no other non-global leaf of the clone, and the clone's
\* page-table pages on non-global paths are new and shared with no other
\* space.  A later store through one space changes what no other space reads
\* at any user page.
C20_CloneIsolation ==
    /\ (mev.op = "clone" /\ mev.ok) =>
          /\ \A vma \in AllVmas :
                PrivateLeaf(mev.m0, mev.parent, vma) =>
                   LET p == Leaf4K(mev.m0, mev.parent, vma)
                       c == Leaf4K(Mem, mev.child, vma)
                   IN  /\ PTE_VALID(c)
                       /\ c.flags = p.flags
                       /\ c.ppn # p.ppn
                       /\ c.ppn \in FreePages(mev.m0.free)
                       /\ c.ppn \notin FreePages(free_chunk_list)
                       /\ ram[c.ppn] = mev.m0.ram[p.ppn]
                       /\ Leaf4K(Mem, mev.parent, vma) = p
                       /\ ram[p.ppn] = mev.m0.ram[p.ppn]
                       /\ \A other \in AllVmas \ {vma} :
                             PrivateLeaf(Mem, mev.child, other)
                                => Leaf4K(Mem, mev.child, other).ppn # c.ppn
          /\ TablesOf(Mem, mev.child) \subseteq FreePages(mev.m0.free)
          /\ \A s \in mspaces \ {mev.child} :
                TablesOf(Mem, mev.child) \cap TablesOf(Mem, s) = {}
    /\ mev.op = "write" =>
          \A s \in mspaces \ {satp}, vma \in UmemVmas :
             View(Mem, s, vma) = View(mev.m0, s, vma)

\* C20: a store through a cloned space to a page the clone copied: the space
\* it was cloned from still maps the page and reads another byte there
C20_Witness ==
    /\ mev.op = "write"
    /\ satp # main_pt2
    /\ \E s \in mspaces \ {satp} :
          /\ PrivateLeaf(Mem, s, mev.vma)
          /\ View(Mem, s, mev.vma).flags = View(Mem, satp, mev.vma).flags
          /\ View(Mem, s, mev.vma).byte # View(Mem, satp, mev.vma).byte
          /\ View(mev.m0, s, mev.vma).byte = View(mev.m0, satp, mev.vma).byte

(***************************************************************************)
(* process.c: process_fork, fork_func and process_exit as the scheduler    *)
(* sees them.  A thread at "run" is in user mode between two system calls; *)
(* the trap frame is followed through sysfork only.                        *)
(***************************************************************************)
\* the number of system calls that return without suspending the caller
ForkMaxOps == 4
\* the user program counter is kept modulo SepcMod
SepcMod == 8

\* the mtag of the main address space
main_mtag == 1

\* proctab has a slot per thread: NPROC is NTHR in the source
ProcSlots == 0..(NTHR - 1)

\* thr->proc == NULL
NoProc == [idx |-> 0 - 1, mtag |-> 0, tid |-> NOTHR]

OkRet(v) == [rc |-> "OK", ret |-> v]
ErrRet(e) == [rc |-> e, ret |-> 0]

NoFev == [op |-> "none", parent |-> NOTHR, child |-> NOTHR]

\* what is known of a child between its spawn and its jump to user mode
NoShake == [clone |-> 0, switched |-> 0, bcast |-> FALSE, heard |-> FALSE]

\* procmgr_init, and main in user mode after its exec
InitForkState ==
    [proc |-> [t \in Tids |-> IF t = MAIN_TID
                              THEN [idx |-> 0, mtag |-> main_mtag,
                                    tid |-> MAIN_TID]
                              ELSE NoProc],
     proctab |-> [i \in ProcSlots |-> i = 0],
     tfr |-> [t \in Tids |-> [a0 |-> OkRet(0), sepc |-> 0]],
     active |-> main_mtag,
     last_mtag |-> main_mtag,
     shake |-> [t \in Tids |-> NoShake],
     ev |-> NoFev,
     n |-> 0]

InitFork ==
    /\ thrtab = InitK.thrtab
    /\ ready_list = InitK.ready_list
    /\ wait_list = InitK.wait_list
    /\ TP = InitK.TP
    /\ halted = InitK.halted
    /\ pc = [t \in Tids |-> PcRun]
    /\ tev = NoTev
    /\ fork = InitForkState
    /\ vcall = <<>>
    /\ intr = <<>>
    /\ timer = <<>>
    /\ indirect = <<>>
    /\ CacheIdle
    /\ PipeIdle
    /\ LockIdle
    /\ SysIdle
    /\ MemIdle

nonForkVars == <<tev, cacheVars, ktfsVars, pipeVars, lockVars, sysVars,
                 memVars, vcall, intr, timer, indirect>>

\* running_thread_suspend: switch_mspace(switchto->proc->mtag) when the
\* thread switched to has a process
SuspendMspace(f, k) ==
    IF f.proc[k.TP] = NoProc THEN f
    ELSE [f EXCEPT !.active = f.proc[k.TP].mtag]

\* discard_active_mspace: the active space is given up for the main one
ForkDiscard(f) ==
    [f EXCEPT !.active = main_mtag]

\* handle_syscall: sepc is advanced before the call is dispatched
SyscallEntry(f, t) == [f EXCEPT !.tfr[t].sepc = (@ + 4) % SepcMod,
                                !.n = @ + 1]

\* the copy process_fork makes of the trap frame
child_trap_frame(tfr) == [tfr EXCEPT !.a0 = OkRet(0)]

\* process_fork(tfr) by the running thread, up to its return or to the end
\* of its condition_wait(done).  fail names the allocation that fails:
\* "clone" clone_active_mspace, "proc" kcalloc of the process, "tfr" kmalloc
\* of the trap frame, "spawn" the allocations of create_thread.
process_fork_call(k, f, fail) ==
    Only({ Only({ Only({
        IF fail = "clone"
        THEN [k |-> k, f |-> f, rc |-> "ENOMEM", child |-> NOTHR]
        ELSE IF fail = "proc"
        THEN [k |-> k,
              f |-> ForkDiscard([f EXCEPT !.last_mtag = new_mtag]),
              rc |-> "ENOMEM", child |-> NOTHR]
        ELSE IF fail = "tfr"
        THEN [k |-> k,
              f |-> ForkDiscard([f EXCEPT
                      !.last_mtag = new_mtag,
                      !.proctab = [i \in ProcSlots |->
                                      @[i] \/ i = child_proc.idx]]),
              rc |-> "ENOMEM", child |-> NOTHR]
        ELSE Only({
            IF s.rc # "OK"
            THEN [k |-> k,
                  f |-> [f EXCEPT
                          !.last_mtag = new_mtag,
                          !.proctab = [i \in ProcSlots |->
                                          @[i] \/ i = child_proc.idx]],
                  rc |-> s.rc, child |-> NOTHR]
            ELSE [k |-> condition_wait(s.k, done(k.TP)),
                  f |-> [f EXCEPT
                          !.last_mtag = new_mtag,
                          !.proctab = [i \in ProcSlots |->
                                          @[i] \/ i = child_proc.idx],
                          !.proc[s.ret] = [child_proc EXCEPT !.tid = s.ret],
                          !.tfr[s.ret] = child_trap_frame(f.tfr[k.TP]),
                          !.shake[s.ret] =
                              [NoShake EXCEPT !.clone = new_mtag]],
                  rc |-> "OK", child |-> s.ret]
            : s \in {thread_spawn(k, fail # "spawn")} })
        : child_proc \in {IF free = {}
                          THEN [idx |-> 0, mtag |-> 0, tid |-> 0]
                          ELSE [idx |-> Min(free), mtag |-> new_mtag,
                                tid |-> 0]} })
        : free \in {{i \in ProcSlots : ~f.proctab[i]}} })
        : new_mtag \in {f.last_mtag + 1} })

\* fork_func(done, tfr): switch_mspace, condition_broadcast(done) and
\* trap_frame_jump(tfr), by the running thread, whose parent is p
fork_func(k, f, p) ==
    [k |-> condition_broadcast(k, done(p)),
     f |-> [f EXCEPT
              !.active = f.proc[k.TP].mtag,
              !.shake[k.TP] =
                  [@ EXCEPT !.switched = f.proc[k.TP].mtag,
                            !.bcast = TRUE,
                            !.heard = InList(p, k.wait_list[done(p)])],
              !.ev = [op |-> "fork_func", parent |-> p, child |-> k.TP]]]

SetFork(r) == SetK(r.k) /\ fork' = r.f

\* the running thread is in user mode
ForkCall == CanCall /\ fork.n < ForkMaxOps

\* sysfork: handle_syscall and process_fork, up to the return to user mode
\* or to the end of condition_wait(done)
SysFork(fail) ==
    /\ ForkCall
    /\ \E r \in {process_fork_call(K, SyscallEntry(fork, TP), fail)} :
          /\ SetK(r.k)
          /\ IF r.rc = "OK"
             THEN /\ pc' = [pc EXCEPT
                              ![TP] = [at |-> "cw", next |-> "fork",
                                       arg |-> r.child],
                              ![r.child] = [at |-> "fork_func",
                                            next |-> "run", arg |-> TP]]
                  /\ fork' = [r.f EXCEPT
                                !.ev = [op |-> "fork_call", parent |-> TP,
                                        child |-> r.child]]
             ELSE /\ pc' = pc
                  /\ fork' = [r.f EXCEPT
                                !.tfr[TP].a0 = ErrRet(r.rc),
                                !.ev = [op |-> "fork_fail", parent |-> TP,
                                        child |-> NOTHR]]
    /\ UNCHANGED nonForkVars

\* the running_thread_suspend that ends a condition_wait
ForkSuspend ==
    /\ halted = "no"
    /\ pc[TP].at = "cw"
    /\ \E k \in {running_thread_suspend(K)} :
          /\ SetK(k)
          /\ fork' = [SuspendMspace(fork, k) EXCEPT !.ev = NoFev]
    /\ pc' = [pc EXCEPT ![TP] = [at |-> @.next, next |-> "run",
                                 arg |-> @.arg]]
    /\ UNCHANGED nonForkVars

\* the child's thread runs fork_func and enters user mode
ForkFunc ==
    /\ halted = "no"
    /\ pc[TP].at = "fork_func"
    /\ SetFork(fork_func(K, fork, pc[TP].arg))
    /\ pc' = [pc EXCEPT ![TP] = PcRun]
    /\ UNCHANGED nonForkVars

\* process_fork after condition_wait(done): the child's thread id is
\* returned to the parent
ForkReturn ==
    /\ halted = "no"
    /\ pc[TP].at = "fork"
    /\ fork' = [fork EXCEPT !.tfr[TP].a0 = OkRet(pc[TP].arg),
                            !.shake[pc[TP].arg] = NoShake,
                            !.ev = [op |-> "fork_ret", parent |-> TP,
                                    child |-> pc[TP].arg]]
    /\ pc' = [pc EXCEPT ![TP] = PcRun]
    /\ UNCHANGED <<thrtab, ready_list, wait_list, TP, halted, nonForkVars>>

\* sysexit: process_exit up to its thread_yield; the main process panics
ForkExit ==
    /\ CanCall
    /\ IF fork.proc[TP].tid = MAIN_TID
       THEN /\ halted' = "panic"
            /\ fork' = [fork EXCEPT !.ev = NoFev]
            /\ UNCHANGED <<thrtab, ready_list, wait_list, TP, pc>>
       ELSE /\ \E k \in {running_thread_suspend(K)} :
                  /\ SetK(k)
                  /\ fork' = [SuspendMspace(fork, k) EXCEPT !.ev = NoFev]
            /\ pc' = [pc EXCEPT ![TP] = [at |-> "exit", next |-> "run",
                                         arg |-> 0]]
    /\ UNCHANGED nonForkVars

\* process_exit after its thread_yield: discard_active_mspace, the slot
\* of proctab is cleared, thread_exit
ForkExitFinish ==
    /\ halted = "no"
    /\ pc[TP].at = "exit"
    /\ \E k \in {thread_exit(K)} :
          /\ SetK(k)
          /\ fork' = [SuspendMspace(
                         [ForkDiscard(fork) EXCEPT
                            !.proctab[fork.proc[TP].idx] = FALSE], k)
                        EXCEPT !.ev = NoFev]
    /\ pc' = [pc EXCEPT ![TP] = PcRun]
    /\ UNCHANGED nonForkVars

\* syswait: thread_join(tid), up to its return or its condition_wait
ForkJoin(tid) ==
    /\ ForkCall
    /\ \E r \in {thread_join(K, tid)} :
          /\ SetK(r.k)
          /\ pc' = IF r.wait
                   THEN [pc EXCEPT ![TP] = [at |-> "cw", next |-> "join",
                                            arg |-> tid]]
                   ELSE pc
          /\ fork' = [fork EXCEPT !.n = @ + 1, !.ev = NoFev]
    /\ UNCHANGED nonForkVars

\* thread_join after its condition_wait
ForkJoinFinish ==
    /\ halted = "no"
    /\ pc[TP].at = "join"
    /\ SetK(thread_reclaim(K, pc[TP].arg))
    /\ fork' = [fork EXCEPT !.ev = NoFev]
    /\ pc' = [pc EXCEPT ![TP] = PcRun]
    /\ UNCHANGED nonForkVars

\* a system call that waits for a device: condition_wait up to
\* restore_interrupts
ForkWait(c) ==
    /\ CanCall
    /\ SetK(condition_wait(K, c))
    /\ pc' = [pc EXCEPT ![TP] = [at |-> "cw", next |-> "run", arg |-> 0]]
    /\ fork' = [fork EXCEPT !.ev = NoFev]
    /\ UNCHANGED nonForkVars

\* the device's interrupt handler wakes the threads that wait for it
ForkInterrupt(c) ==
    /\ halted = "no"
    /\ wait_list[c] # <<>>
    /\ SetK(condition_broadcast(K, c))
    /\ fork' = [fork EXCEPT !.ev = NoFev]
    /\ UNCHANGED <<pc, nonForkVars>>

\* idle_thread_func: yield while there are threads ready to run
ForkIdle ==
    /\ halted = "no"
    /\ TP = IDLE_TID
    /\ pc[TP].at = "run"
    /\ ready_list # <<>>
    /\ \E k \in {running_thread_suspend(K)} :
          /\ SetK(k)
          /\ fork' = [SuspendMspace(fork, k) EXCEPT !.ev = NoFev]
    /\ UNCHANGED <<pc, nonForkVars>>

NextFork ==
    \/ \E fail \in {"none", "clone", "proc", "tfr", "spawn"} : SysFork(fail)
    \/ ForkSuspend
    \/ ForkFunc
    \/ ForkReturn
    \/ ForkExit
    \/ ForkExitFinish
    \/ \E tid \in 1..(NTHR - 2) : ForkJoin(tid)
    \/ ForkJoinFinish
    \/ \E c \in DevConds : ForkWait(c)
    \/ \E c \in DevConds : ForkInterrupt(c)
    \/ ForkIdle

\* the processor always executes the running thread, and a device that is
\* waited for raises its interrupt
SpecFork == InitFork /\ [][NextFork]_vars /\ WF_vars(NextFork)

\* process_fork returns the child's thread id only after the child has
\* switched to the address space cloned for it and has broadcast done
ForkReturnsAfterChild ==
    [][ForkReturn =>
          /\ fork.shake[pc[TP].arg].bcast
          /\ fork.shake[pc[TP].arg].switched = fork.shake[pc[TP].arg].clone
          /\ fork'.tfr[TP].a0 = OkRet(pc[TP].arg)]_vars

\* when the child broadcasts done its parent is on done's wait list, and
\* the child enters user mode with the parent's trap frame but for a0 = 0
ForkBroadcastHeard ==
    [][ForkFunc =>
          /\ InList(pc[TP].arg, wait_list[done(pc[TP].arg)])
          /\ thrtab'[pc[TP].arg].state = "READY"
          /\ fork'.tfr[TP] = [fork.tfr[pc[TP].arg] EXCEPT !.a0 = OkRet(0)]
          /\ fork'.tfr[TP].a0 = OkRet(0)]_vars

\* a parent that waits in process_fork returns from it
ForkTerminates ==
    \A p \in Tids :
       (pc[p].at = "cw" /\ pc[p].next = "fork")
          ~> ((fork.ev.op = "fork_ret" /\ fork.ev.parent = p)
              \/ halted # "no")

\* C21: process_fork returns the child's thread id to the parent only after
\* the child's thread has switched to the cloned address space and has
\* broadcast done; the parent is on done's wait list when the child
\* broadcasts; process_fork terminates in the parent; and the child enters
\* user mode with a copy of the parent's trap frame in which a0 is 0.
C21_ForkHandshake ==
    /\ ForkReturnsAfterChild
    /\ ForkBroadcastHeard
    /\ ForkTerminates

(***************************************************************************)
(* memory.c: validate_vptr.  A 64-bit address is kept as three fields, so  *)
(* that the sums are those of uintptr_t: hi is bits 63:39, vpn bits 38:12  *)
(* (VPN2, VPN1 and VPN0), off bits 11:0.                                   *)
(***************************************************************************)
HiMod == 2^25
VpnMod == 2^27
PAGE_SIZE == 2^12
\* entries of a page table
VptrPteCnt == 2^9

Addr(hi, vpn, off) == [hi |-> hi, vpn |-> vpn, off |-> off]

\* a + b modulo 2^64
Add64(a, b) ==
    Only({ Only({ Addr((a.hi + b.hi + (v \div VpnMod)) % HiMod,
                       v % VpnMod, o % PAGE_SIZE)
                  : v \in {a.vpn + b.vpn + (o \div PAGE_SIZE)} })
           : o \in {a.off + b.off} })

\* 0 - b modulo 2^64
Neg64(b) ==
    Add64(Addr(HiMod - 1 - b.hi, VpnMod - 1 - b.vpn, PAGE_SIZE - 1 - b.off),
          Addr(0, 0, 1))

Sub64(a, b) == Add64(a, Neg64(b))

\* a < b, unsigned
Lt64(a, b) ==
    \/ a.hi < b.hi
    \/ a.hi = b.hi /\ a.vpn < b.vpn
    \/ a.hi = b.hi /\ a.vpn = b.vpn /\ a.off < b.off

\* ROUND_UP(n, PAGE_SIZE)
RoundUpPage(n) == [Add64(n, Addr(0, 0, PAGE_SIZE - 1)) EXCEPT !.off = 0]

\* wellformed(vma): bits 63:38 are all 0 or all 1
wellformed(vma) ==
    \/ vma.hi = 0 /\ vma.vpn < 2^26
    \/ vma.hi = HiMod - 1 /\ vma.vpn >= 2^26

Vpn2Of(vma) == (vma.vpn \div (VptrPteCnt * VptrPteCnt)) % VptrPteCnt
Vpn1Of(vma) == (vma.vpn \div VptrPteCnt) % VptrPteCnt
Vpn0Of(vma) == vma.vpn % VptrPteCnt

\* the pages that hold the tables of the active space
VRoot == 1
VPt1Ram == 2
VPt0Kimg == 3
VPt1User == 4
VPt0User == 5
\* pages that leaves point to
VKimgPage == 6
VUserPage == 7

\* virtual page numbers: RAM_START, UMEM_START_VMA, the last page below the
\* hole of Sv39 and the last page of the address space
RamVpn == 2 * 2^18
UserVpn == 3 * 2^18
LowTopVpn == 2^26 - 1
TopVpn == VpnMod - 1

\* the active space after memory_init and alloc_and_map_range: two MMIO
\* gigapages, the kernel image and a RAM megapage, and user pages at
\* UMEM_START_VMA, the first mapped R W U, the second with flags second
VTables(second) ==
    [p \in {VRoot, VPt1Ram, VPt0Kimg, VPt1User, VPt0User} |->
       IF p = VRoot
       THEN (0 :> leaf_pte(0, {PTE_R, PTE_W, PTE_G})
             @@ 1 :> leaf_pte(0, {PTE_R, PTE_W, PTE_G})
             @@ 2 :> ptab_pte(VPt1Ram, {PTE_G})
             @@ 3 :> ptab_pte(VPt1User, {}))
       ELSE IF p = VPt1Ram
       THEN (0 :> ptab_pte(VPt0Kimg, {PTE_G})
             @@ 1 :> leaf_pte(VKimgPage, {PTE_R, PTE_W, PTE_G}))
       ELSE IF p = VPt0Kimg
       THEN (0 :> leaf_pte(VKimgPage, {PTE_R, PTE_X, PTE_G}))
       ELSE IF p = VPt1User
       THEN (0 :> ptab_pte(VPt0User, {}))
       ELSE IF second = {}
       THEN (0 :> leaf_pte(VUserPage, {PTE_R, PTE_W, PTE_U}))
       ELSE (0 :> leaf_pte(VUserPage, {PTE_R, PTE_W, PTE_U})
             @@ 1 :> leaf_pte(VUserPage, second))]

\* ((struct pte *)pageptr(ppn))[i]: an entry of a table, or, of a page that
\* is no table, the words found there: junk at index 0, zeros elsewhere
VEntry(v, ppn, i) ==
    IF ppn \in DOMAIN v.tables
    THEN IF i \in DOMAIN v.tables[ppn] THEN v.tables[ppn][i] ELSE null_pte
    ELSE IF i = 0 THEN v.junk ELSE null_pte

\* the body of the loop of validate_vptr for virt_addr: 0 when the page
\* passes
VptrPage(v, virt_addr) ==
    Only({
        IF ~PTE_VALID(e2) THEN "EINVAL"
        ELSE Only({
            IF ~PTE_VALID(e1) THEN "EINVAL"
            ELSE Only({
                IF ~PTE_VALID(e0) \/ ~PTE_LEAF(e0) THEN "EINVAL"
                ELSE IF ~(v.flags \subseteq e0.flags) THEN "EACCESS"
                ELSE "OK"
                : e0 \in {VEntry(v, e1.ppn, Vpn0Of(virt_addr))} })
            : e1 \in {VEntry(v, e2.ppn, Vpn1Of(virt_addr))} })
        : e2 \in {VEntry(v, VRoot, Vpn2Of(virt_addr))} })

\* the loop of validate_vptr
RECURSIVE VptrLoop(_, _, _)
VptrLoop(v, virt_addr, end_addr) ==
    IF ~Lt64(virt_addr, end_addr) THEN "OK"
    ELSE Only({
        IF rc # "OK" THEN rc
        ELSE Only({
            VptrLoop(v, IF Lt64(next_page, end_addr) THEN next_page
                        ELSE end_addr, end_addr)
            : next_page \in {RoundUpPage(Add64(virt_addr, Addr(0, 0, 1)))} })
        : rc \in {VptrPage(v, virt_addr)} })

\* validate_vptr(vp, len, rwxug_flags) of the call v
validate_vptr(v) ==
    IF v.vp = Addr(0, 0, 0) \/ v.len = Addr(0, 0, 0) THEN "EINVAL"
    ELSE Only({
        IF ~wellformed(v.vp) \/ ~wellformed(Sub64(end_addr, Addr(0, 0, 1)))
        THEN "EINVAL"
        ELSE VptrLoop(v, v.vp, end_addr)
        : end_addr \in {Add64(v.vp, v.len)} })

\* the pointers, lengths and flags of the calls
VptrAddrs ==
    {Addr(0, 0, 0), Addr(0, 0, 8), Addr(0, 2^16, 0), Addr(0, RamVpn, 0),
     Addr(0, UserVpn, 0), Addr(0, UserVpn, PAGE_SIZE - 8),
     Addr(0, UserVpn + 1, 0), Addr(0, LowTopVpn, 0),
     Addr(HiMod - 1, TopVpn, 0), Addr(HiMod - 1, TopVpn, PAGE_SIZE - 8)}

VptrLens ==
    {Addr(0, 0, 0), Addr(0, 0, 1), Addr(0, 0, 8), Addr(0, 1, 0),
     Addr(0, 2, 0), Addr(HiMod - 1, TopVpn, 0),
     Addr(HiMod - 1, TopVpn, PAGE_SIZE - 1)}

VptrFlags == {{}, {PTE_R, PTE_U}, {PTE_W, PTE_U}}

InitVptr ==
    /\ \E vp \in VptrAddrs, len \in VptrLens, flags \in VptrFlags,
          second \in {{}, {PTE_R, PTE_U}, {PTE_R, PTE_W, PTE_U}},
          junk \in {null_pte, leaf_pte(0, {PTE_R, PTE_W, PTE_U})} :
          vcall = [vp |-> vp, len |-> len, flags |-> flags,
                   tables |-> VTables(second), junk |-> junk,
                   called |-> FALSE, rc |-> "OK"]
    /\ fork = <<>>
    /\ intr = <<>>
    /\ timer = <<>>
    /\ indirect = <<>>
    /\ CacheIdle
    /\ ThreadIdle
    /\ PipeIdle
    /\ LockIdle
    /\ SysIdle
    /\ MemIdle

\* a system call checks the pointer it was given
VptrCall ==
    /\ ~vcall.called
    /\ vcall' = [vcall EXCEPT !.called = TRUE, !.rc = validate_vptr(vcall)]
    /\ UNCHANGED <<cacheVars, ktfsVars, threadVars, pipeVars, lockVars,
                   sysVars, memVars, fork, intr, timer, indirect>>

NextVptr == VptrCall

SpecVptr == InitVptr /\ [][NextVptr]_vars

\* the page of an address
PageOf(a) == Addr(a.hi, a.vpn, 0)

\* the page overlaps the len bytes that start at vp, modulo 2^64
Overlaps(page, vp, len) ==
    \/ Lt64(Sub64(page, vp), len)
    \/ Lt64(Sub64(vp, page), Addr(0, 1, 0))

\* what the processor finds for a page in the active space: the leaf entry
\* of level 2, 1 or 0, or no entry
VLeaf(v, page) ==
    IF ~wellformed(page) THEN null_pte
    ELSE Only({
        IF ~PTE_VALID(e2) \/ PTE_LEAF(e2) THEN e2
        ELSE Only({
            IF ~PTE_VALID(e1) \/ PTE_LEAF(e1) THEN e1
            ELSE VEntry(v, e1.ppn, Vpn0Of(page))
            : e1 \in {VEntry(v, e2.ppn, Vpn1Of(page))} })
        : e2 \in {VEntry(v, VRoot, Vpn2Of(page))} })

\* the pages looked at: those of the pointers, their neighbours, and the
\* page of the last byte
VptrPages(v) ==
    {PageOf(a) : a \in VptrAddrs}
       \cup {PageOf(Add64(a, Addr(0, 1, 0))) : a \in VptrAddrs}
       \cup {PageOf(Sub64(Add64(v.vp, v.len), Addr(0, 0, 1)))}

\* C22: when validate_vptr(vp, len, flags) returns 0 for len >= 1, every
\* page that overlaps the len bytes at vp (modulo 2^64) has a valid leaf
\* entry in the active space whose flags include every bit of flags.
C22_ValidateVptrSound ==
    (vcall.called /\ vcall.rc = "OK" /\ vcall.len # Addr(0, 0, 0)) =>
        \A page \in VptrPages(vcall) :
           Overlaps(page, vcall.vp, vcall.len) =>
              /\ PTE_VALID(VLeaf(vcall, page))
              /\ PTE_LEAF(VLeaf(vcall, page))
              /\ vcall.flags \subseteq VLeaf(vcall, page).flags

\* the same for calls whose range does not wrap around 2^64 and that do
\* not read a page that is no table
VptrSoundNoWrap ==
    (/\ vcall.called
     /\ vcall.rc = "OK"
     /\ ~Lt64(Add64(vcall.vp, vcall.len), vcall.vp)
     /\ Vpn2Of(vcall.vp) >= 2) =>
        \A page \in VptrPages(vcall) :
           Overlaps(page, vcall.vp, vcall.len) =>
              /\ PTE_VALID(VLeaf(vcall, page))
              /\ PTE_LEAF(VLeaf(vcall, page))
              /\ vcall.flags \subseteq VLeaf(vcall, page).flags

(***************************************************************************)
(* memory.c: alloc_phys_pages and free_phys_pages called for runs of       *)
(* pages, on the free chunk list that memory_init leaves.                  *)
(***************************************************************************)
\* calls of alloc_phys_pages and free_phys_pages
AllocMaxOps == 5

\* the page counts asked for
AllocSizes == {1, 2, MemPool - 2}

\* the pages pp .. pp + cnt - 1
PageRun(pp, cnt) == pp..(pp + cnt - 1)

NoAev == [op |-> "none", cnt |-> 0, pp |-> 0, free0 |-> <<>>,
          panic |-> FALSE, held |-> {}, n |-> 0]

InitAlloc ==
    /\ ptes = MainTables
    /\ ram = [p \in PhysPages |-> IF p = PoolStart THEN ChunkMark ELSE 0]
    /\ free_chunk_list = <<[start |-> PoolStart, pagecnt |-> MemPool]>>
    /\ satp = main_pt2
    /\ mspaces = {main_pt2}
    /\ mev = NoAev
    /\ CacheIdle
    /\ ThreadIdle
    /\ PipeIdle
    /\ LockIdle
    /\ SysIdle
    /\ AuxIdle

\* alloc_phys_pages(cnt)
PAlloc(cnt) ==
    /\ ~mev.panic
    /\ mev.n < AllocMaxOps
    /\ \E r \in {alloc_phys_pages(Mem, cnt)} :
          /\ free_chunk_list' = r.m.free
          /\ ram' = r.m.ram
          /\ mev' = [op |-> "alloc", cnt |-> cnt, pp |-> r.pp,
                     free0 |-> free_chunk_list, panic |-> r.m.panic,
                     held |-> IF r.pp = 0 THEN mev.held
                              ELSE mev.held \cup PageRun(r.pp, cnt),
                     n |-> mev.n + 1]
    /\ UNCHANGED <<ptes, satp, mspaces, nonMemVars>>

\* free_phys_pages(pp, cnt) of pages that were allocated
PFree(pp, cnt) ==
    /\ ~mev.panic
    /\ mev.n < AllocMaxOps
    /\ PageRun(pp, cnt) \subseteq mev.held
    /\ \E m \in {free_phys_pages(Mem, pp, cnt)} :
          /\ free_chunk_list' = m.free
          /\ ram' = m.ram
    /\ mev' = [op |-> "free", cnt |-> cnt, pp |-> pp,
               free0 |-> free_chunk_list, panic |-> FALSE,
               held |-> mev.held \ PageRun(pp, cnt), n |-> mev.n + 1]
    /\ UNCHANGED <<ptes, satp, mspaces, nonMemVars>>

NextAlloc ==
    \/ \E cnt \in AllocSizes : PAlloc(cnt)
    \/ \E pp \in PhysPages, cnt \in 1..2 : PFree(pp, cnt)

SpecAlloc == InitAlloc /\ [][NextAlloc]_vars

\* alloc_phys_pages returns the base of cnt pages that were all free and
\* are free no longer, or NULL with the free chunk list unchanged
AllocRunOrNull ==
    mev.op = "alloc" =>
       IF mev.pp = 0
       THEN free_chunk_list = mev.free0
       ELSE /\ PageRun(mev.pp, mev.cnt) \subseteq FreePages(mev.free0)
            /\ FreePages(free_chunk_list)
                  = FreePages(mev.free0) \ PageRun(mev.pp, mev.cnt)

\* C23: alloc_phys_pages(n), n >= 1, returns the base of n contiguous pages
\* that were all free, or returns NULL with the free chunk list unchanged;
\* it never panics, also not when n pages are free but no chunk has n pages.
C23_AllocNeverPanics ==
    /\ AllocRunOrNull
    /\ mev.op = "alloc" => ~mev.panic

(***************************************************************************)
(* Partial transfers of pipe_write, ktfs_readat and ktfs_writeat           *)
(***************************************************************************)
\* a pipe_write that stored bytes returns their number
PipeWritePartial ==
    (DOMAIN pev # {} /\ pev.op = "write" /\ pev.n > 0) => pev.rc = "OK"

\* a ktfs_readat or ktfs_writeat that moved bytes returns their number
KtfsPartial ==
    (DOMAIN kev # {} /\ kev.op \in {"readat", "writeat"} /\ kev.n > 0)
        => kev.err = "OK"

\* C24: a pipe_write, ktfs_readat or ktfs_writeat that meets an error after
\* it has transferred n > 0 bytes returns n; an error code is returned only
\* by a call that transferred nothing.
C24_PartialSuccess ==
    /\ PipeWritePartial
    /\ KtfsPartial

(***************************************************************************)
(* Callers of the cache that hold blocks while they get others: the        *)
(* pointers found_blk and last_blk of find_inode_by_name, dind and ind of  *)
(* ktfs_ioctl, or the pointers of two threads.  pin[h] is the block that   *)
(* pointer h holds, cev.got[h] the position it was got for.                *)
(***************************************************************************)
Holders == {1, 2}

InitPin ==
    /\ cache = create_cache
    /\ disk \in [0..(DiskBlocks - 1) -> Data]
    /\ pin = [h \in Holders |-> NULL]
    /\ wrote = FALSE
    /\ shadow = disk
    /\ dirtied = {}
    /\ mru = <<>>
    /\ cev = [op |-> "none", pos |-> 0, rc |-> "OK",
              got |-> [h \in Holders |-> 0]]
    /\ KtfsIdle
    /\ ThreadIdle
    /\ PipeIdle
    /\ ExtIdle

\* cache_get_block(cache, pos, &blk[h]) while the other pointer may hold a block
PinGet(h, pos) ==
    /\ pin[h] = NULL
    /\ LET r == cache_get_block(cache, disk, pos)
       IN  /\ cache' = r.cache
           /\ disk' = r.disk
           /\ pin' = [pin EXCEPT ![h] = r.blk]
           /\ cev' = [op |-> "get", pos |-> pos, rc |-> r.rc,
                      got |-> [cev.got EXCEPT ![h] = pos]]
    /\ UNCHANGED <<wrote, shadow, dirtied, mru>>
    /\ UNCHANGED nonCacheVars

\* cache_release_block(cache, blk[h], dirty)
PinRelease(h, dirty) ==
    /\ pin[h] # NULL
    /\ LET r == cache_release_block(cache, disk, pin[h], dirty)
       IN  /\ cache' = r.cache
           /\ disk' = r.disk
    /\ pin' = [pin EXCEPT ![h] = NULL]
    /\ cev' = [cev EXCEPT !.op = "release", !.pos = cev.got[h], !.rc = "OK"]
    /\ UNCHANGED <<wrote, shadow, dirtied, mru>>
    /\ UNCHANGED nonCacheVars

\* cache_flush(cache)
PinFlush ==
    /\ LET r == cache_flush(cache, disk)
       IN  /\ cache' = r.cache
           /\ disk' = r.disk
    /\ cev' = [cev EXCEPT !.op = "flush", !.pos = 0, !.rc = "OK"]
    /\ UNCHANGED <<pin, wrote, shadow, dirtied, mru>>
    /\ UNCHANGED nonCacheVars

NextPin ==
    \/ \E h \in Holders, pos \in Positions : PinGet(h, pos)
    \/ \E h \in Holders, dirty \in {0, 1} : PinRelease(h, dirty)
    \/ PinFlush

SpecPin == InitPin /\ [][NextPin]_vars

\* C25: between a successful cache_get_block and the cache_release_block of
\* the block, the buffer stays valid and stays the buffer of the position it
\* was got for, whatever other cache_get_block calls happen meanwhile and
\* however full the cache is.
C25_PinnedNotEvicted ==
    \A h \in Holders :
       pin[h] # NULL =>
          /\ cache.valid[pin[h]] = 1
          /\ cache.pos[pin[h]] = cev.got[h]

\* the same while the cache still has an invalid entry to fill
PinnedWhileNotFull ==
    (\E s \in Slots : cache.valid[s] = 0 /\ cache.pos[s] = 0) =>
        C25_PinnedNotEvicted

\* C26: in every state reached through cache_get_block (hit, fill of an
\* invalid entry, eviction, failed reads of the device), cache_release_block
\* and cache_flush, at most one entry is valid for a position, and the list
\* is a chain of exactly CAPACITY distinct entries from head to tail, with
\* no cycle and tail->next == NULL.
C26_CacheListIntegrity ==
    /\ \A s, t \in Slots :
          (cache.valid[s] = 1 /\ cache.valid[t] = 1
             /\ cache.pos[s] = cache.pos[t]) => s = t
    /\ Len(CacheList(cache)) = CAPACITY
    /\ {CacheList(cache)[i] : i \in 1..Len(CacheList(cache))} = Slots
    /\ CacheList(cache)[1] = cache.head
    /\ CacheList(cache)[Len(CacheList(cache))] = cache.tail
    /\ cache.next[cache.tail] = NULL

\* the list was reordered, a failed read left an entry invalid at the
\* position asked for, and another entry is valid
C26_Witness ==
    /\ cache.head # 1
    /\ \E s \in Slots : cache.valid[s] = 0 /\ cache.pos[s] = DiskBlocks
    /\ \E t \in Slots : cache.valid[t] = 1
    /\ cev.op = "flush"

\* thread a is in front of thread b on the list
Before(list, a, b) ==
    \E i, j \in 1..Len(list) : i < j /\ list[i] = a /\ list[j] = b

\* a thread that calls condition_wait(c) goes behind those that wait for c
\* already, and the waiters of c leave its list only all together
WaitListFifo ==
    \A c \in Conds :
       wait_list'[c] # wait_list[c] =>
          \/ wait_list'[c] = <<>>
          \/ wait_list'[c] = Append(wait_list[c], TP)

\* two waiters of c stay in the order they waited in: after the broadcast
\* they are on the ready list in that order, behind every thread that was
\* on the ready list already
WokenInOrder ==
    \A c \in Conds : \A a, b \in Tids :
       Before(wait_list[c], a, b) =>
          \/ Before(wait_list'[c], a, b)
          \/ /\ Before(ready_list', a, b)
             /\ \A r \in ListSet(ready_list) :
                   InList(r, ready_list') => Before(ready_list', r, a)

\* of two threads on the ready list the one in front is switched to first
ReadyListFifo ==
    \A a, b \in Tids :
       Before(ready_list, a, b) =>
          \/ Before(ready_list', a, b)
          \/ /\ TP' = a
             /\ thrtab'[a].state = "RUNNING"
             /\ InList(b, ready_list')
             /\ ~InList(a, ready_list')

\* C27: if T1 called condition_wait(C) before T2, then after
\* condition_broadcast(C) T1 is in front of T2 on the ready list, both are
\* behind every thread that was on the ready list already, and T1 is switched
\* to before T2.
C27_BroadcastOrder ==
    [][WaitListFifo /\ WokenInOrder /\ ReadyListFifo]_vars

\* a broadcast has put two waiters behind a thread that was ready already
C27_Witness ==
    /\ tev.op \in {"broadcast", "isr"}
    /\ Cardinality(tev.W) >= 2
    /\ Len(ready_list) >= 3
    /\ ready_list[1] \notin tev.W
    /\ ready_list[Len(ready_list)] \in tev.W
    /\ ready_list[Len(ready_list) - 1] \in tev.W

\* the threads whose state is THREAD_RUNNING
RunningSet == {t \in Tids : thrtab[t].used /\ thrtab[t].state = "RUNNING"}

\* a slot is emptied only when its thread is EXITED, and then by a
\* thread_join that the thread's parent called and that returns its id
ReclaimOnlyByJoin ==
    \A t \in Tids :
       (thrtab[t].used /\ ~thrtab'[t].used) =>
          /\ thrtab[t].state = "EXITED"
          /\ thrtab[t].parent = TP
          /\ TP' = TP
          /\ tev'.op \in {"join", "join0"}
          /\ tev'.t = TP
          /\ tev'.rc = "OK"
          /\ tev'.ret = t

\* C28: through every sequence of thread_spawn, thread_yield,
\* condition_wait, condition_broadcast (by threads and by interrupt
\* handlers), thread_exit and thread_join, at most one thread has state
\* RUNNING, and the slot of an EXITED thread is emptied only by a thread_join
\* that the thread's parent called.
C28_SingleRunning ==
    /\ [](Cardinality(RunningSet) <= 1)
    /\ [][ReclaimOnlyByJoin]_vars

\* the parent was resumed inside thread_join and has emptied the slot of
\* its child, while another thread it spawned is EXITED and keeps its slot
C28_Witness ==
    /\ tev.op = "join"
    /\ tev.rc = "OK"
    /\ tev.blocked
    /\ ~thrtab[tev.arg].used
    /\ RunningSet = {tev.t}
    /\ \E t \in Tids : thrtab[t].used /\ thrtab[t].state = "EXITED"

\* the number of places thread t has on the ready list and the wait lists
ListPlaces(t) ==
    Cardinality({i \in 1..Len(ready_list) : ready_list[i] = t})
      + Cardinality({<<c, i>> \in Conds \X (1..NTHR) :
                        i <= Len(wait_list[c]) /\ wait_list[c][i] = t})

\* C29: in every state, also when an interrupt handler runs
\* condition_broadcast between condition_wait's insertion and
\* running_thread_suspend, each thread is on at most one thread list (the
\* ready list or the wait list of one condition), the RUNNING thread is on
\* no list, every thread on a wait list is WAITING with wait_cond equal to
\* that condition, and every thread on the ready list is READY.
C29_ListDiscipline ==
    /\ \A t \in Tids : ListPlaces(t) <= 1
    /\ \A t \in Tids :
          (thrtab[t].used /\ thrtab[t].state = "RUNNING") => ListPlaces(t) = 0
    /\ \A c \in Conds : \A i \in 1..Len(wait_list[c]) :
          /\ thrtab[wait_list[c][i]].used
          /\ thrtab[wait_list[c][i]].state = "WAITING"
          /\ thrtab[wait_list[c][i]].wait_cond = c
    /\ \A i \in 1..Len(ready_list) :
          /\ thrtab[ready_list[i]].used
          /\ thrtab[ready_list[i]].state = "READY"

\* an interrupt handler has broadcast the condition that the interrupted
\* thread has just put itself on the wait list of, before the thread called
\* running_thread_suspend
C29_Witness ==
    /\ tev.op = "isr"
    /\ pc[TP].at = "cw"
    /\ TP \in tev.W
    /\ InList(TP, ready_list)
    /\ Len(ready_list) >= 2

(***************************************************************************)
(* Interrupt masking around condition_wait.  intr.sie is sstatus.SIE of    *)
(* the hart as the thread sees it, intr.pie what the function the thread   *)
(* is in saved with disable_interrupts, intr.cw the last call of           *)
(* condition_wait: who called and the value of SIE at the call, intr.off   *)
(* the functions that have called condition_wait with SIE clear.           *)
(***************************************************************************)
\* number of calls of a run
IntrMaxOps == 4

\* disable_interrupts() ... if (c) condition_wait() ... restore_interrupts()
MaskedOnce == {"alarm_sleep", "uart_read", "viorng_read"}
\* the same once for each byte
MaskedEach == {"uart_write"}
\* disable_interrupts() ... while (c) condition_wait() ... restore_interrupts()
MaskedLoop == {"lock_acquire"}
\* condition_wait() with no disable_interrupts before it
PlainOnce == {"thread_join", "process_fork"}
\* while (c) condition_wait() with no disable_interrupts before it
PlainLoop == {"pipe_read", "pipe_write", "vioblk", "thread_join_any"}

IntrCallers == MaskedOnce \cup MaskedEach \cup MaskedLoop \cup PlainOnce
                  \cup PlainLoop

\* disable_interrupts(): SIE is cleared; the caller keeps the old value
disable_interrupts(i) == [i EXCEPT !.sie = FALSE]

\* restore_interrupts(pie)
restore_interrupts(i, pie) == [i EXCEPT !.sie = pie]

\* enable_interrupts()
enable_interrupts(i) == [i EXCEPT !.sie = TRUE]

\* condition_wait called from fn: the call is recorded; the list insertion
\* is between disable_interrupts and restore_interrupts, and
\* running_thread_suspend ends with enable_interrupts, which the thread
\* resumed later has had done for it by the thread that switched to it
IntrWait(i, fn) ==
    Only({ [enable_interrupts(
               disable_interrupts(
                  restore_interrupts(disable_interrupts(c), c.sie)))
              EXCEPT !.at = "wait"]
           : c \in {[i EXCEPT !.cw = [called |-> TRUE, from |-> fn,
                                       sie |-> i.sie],
                               !.off = IF i.sie THEN @ ELSE @ \cup {fn}]} })

\* the return of fn
IntrReturn(i) ==
    [(IF i.fn \in MaskedOnce \cup MaskedEach \cup MaskedLoop
      THEN restore_interrupts(i, i.pie) ELSE i)
       EXCEPT !.fn = "none", !.at = "run"]

\* fn from its entry to its first condition_wait, or to its return when it
\* has nothing to wait for
IntrEnter(i, fn, wait) ==
    Only({ IF wait THEN IntrWait(e, fn) ELSE IntrReturn(e)
           : e \in {IF fn \in MaskedOnce \cup MaskedEach \cup MaskedLoop
                    THEN [disable_interrupts(i) EXCEPT !.fn = fn,
                                                       !.pie = i.sie]
                    ELSE [i EXCEPT !.fn = fn]} })

\* fn from the return of condition_wait to its next condition_wait or to
\* its return
IntrContinue(i, again) ==
    IF ~again \/ i.fn \in MaskedOnce \cup PlainOnce THEN IntrReturn(i)
    ELSE IF i.fn \in MaskedEach
    THEN Only({ IntrWait([disable_interrupts(r) EXCEPT !.fn = i.fn,
                                                       !.pie = r.sie], i.fn)
                : r \in {restore_interrupts(i, i.pie)} })
    ELSE IntrWait(i, i.fn)

NoCw == [called |-> FALSE, from |-> "none", sie |-> TRUE]

\* a thread runs with interrupts enabled when it makes its first call
InitIntr ==
    /\ intr = [sie |-> TRUE, pie |-> TRUE, fn |-> "none", at |-> "run",
               cw |-> NoCw, off |-> {}, n |-> 0]
    /\ fork = <<>>
    /\ vcall = <<>>
    /\ timer = <<>>
    /\ indirect = <<>>
    /\ CacheIdle
    /\ ThreadIdle
    /\ PipeIdle
    /\ LockIdle
    /\ SysIdle
    /\ MemIdle

nonIntrVars == <<cacheVars, ktfsVars, threadVars, pipeVars, lockVars,
                 sysVars, memVars, fork, vcall, timer, indirect>>

\* the thread calls fn; wait tells whether fn finds it has to wait
IntrCall(fn, wait) ==
    /\ intr.fn = "none"
    /\ intr.n < IntrMaxOps
    /\ intr' = [IntrEnter(intr, fn, wait) EXCEPT !.n = intr.n + 1]
    /\ UNCHANGED nonIntrVars

\* the thread is switched to again and goes on in fn
IntrResume(again) ==
    /\ intr.at = "wait"
    /\ again => intr.n < IntrMaxOps
    /\ intr' = [IntrContinue(intr, again)
                  EXCEPT !.n = IF again THEN intr.n + 1 ELSE intr.n]
    /\ UNCHANGED nonIntrVars

NextIntr ==
    \/ \E fn \in IntrCallers, wait \in BOOLEAN : IntrCall(fn, wait)
    \/ \E again \in BOOLEAN : IntrResume(again)

SpecIntr == InitIntr /\ [][NextIntr]_vars

\* C30: at every call of condition_wait (from lock_acquire on a contended
\* lock, alarm_sleep, pipe_read and pipe_write, thread_join, process_fork
\* and the device drivers) interrupts are enabled: every disable_interrupts
\* is matched by a restore_interrupts before a condition_wait is reached.
C30_WaitWithInterruptsOn ==
    intr.cw.called => intr.cw.sie

\* the same for the callers that do not call disable_interrupts themselves,
\* and between calls the thread has interrupts enabled
WaitPlainCallers ==
    /\ intr.off \subseteq MaskedOnce \cup MaskedEach \cup MaskedLoop
    /\ intr.fn = "none" => intr.sie

(***************************************************************************)
(* timer.c: alarms.  Thread t sleeps on its own struct alarm, named t.     *)
(* timer.sleep_list is the list linked by al->next, timer.twake the wake   *)
(* times of the alarms, timer.stcmp the compare register, timer.stie the   *)
(* bit STIE of sie, timer.now what rdtime() returns.                       *)
(***************************************************************************)
\* the largest time (UINT64_MAX of timer.c, scaled down)
UINT64_MAX == 5
\* rdtime() stays below this
AlarmMaxTime == 3
\* the tick counts that alarm_sleep is called with
AlarmCounts == {0, 1, 2, UINT64_MAX}

\* the walk of alarm_sleep behind prev: the alarms it passes
RECURSIVE AlarmWalk(_, _, _)
AlarmWalk(twake, rest, tw) ==
    IF rest = <<>> \/ ~(twake[Head(rest)] <= tw) THEN 0
    ELSE 1 + AlarmWalk(twake, Tail(rest), tw)

\* an insertion that walks past the alarms that wake earlier only
AlarmInsertBeforeEqual(list, twake, al) ==
    IF list = <<>> \/ twake[al] <= twake[list[1]] THEN <<al>> \o list
    ELSE Only({ SubSeq(list, 1, n) \o <<al>> \o SubSeq(list, n + 1, Len(list))
                : n \in {Cardinality({i \in 1..Len(list) :
                                         twake[list[i]] < twake[al]})} })

\* the insertion of alarm_sleep into the sleep list
AlarmInsert(list, twake, al) ==
    IF list = <<>> \/ twake[al] < twake[list[1]] THEN <<al>> \o list
    ELSE Only({ SubSeq(list, 1, n) \o <<al>> \o SubSeq(list, n + 1, Len(list))
                : n \in {1 + AlarmWalk(twake, Tail(list), twake[al])} })

\* a set_stcmp that alarm_sleep leaves out
AlarmNoStcmp(tm, al) == tm

\* if (sleep_list == al) set_stcmp(al->twake)
AlarmSetStcmp(tm, al) ==
    IF tm.sleep_list[1] = al THEN [tm EXCEPT !.stcmp = tm.twake[al]] ELSE tm

\* alarm_sleep(al, tcnt) of the running thread, up to the
\* running_thread_suspend of its condition_wait
alarm_sleep(k, tm, tcnt) ==
    Only({ IF w.twake[k.TP] < w.now
           THEN [k |-> k, tm |-> w, wait |-> FALSE]
           ELSE [k |-> condition_wait(k, al_cond(k.TP)),
                 tm |-> [AlarmSetStcmp(
                           [w EXCEPT !.sleep_list =
                               AlarmInsert(w.sleep_list, w.twake, k.TP)],
                           k.TP)
                         EXCEPT !.stie = TRUE],
                 wait |-> TRUE]
           : w \in {[tm EXCEPT !.twake[k.TP] =
                        IF UINT64_MAX - tm.twake[k.TP] < tcnt
                        THEN UINT64_MAX ELSE tm.twake[k.TP] + tcnt]} })

\* a loop that stops in front of the alarms that are due just now
RECURSIVE TimerPopEarlier(_, _)
TimerPopEarlier(k, tm) ==
    IF tm.sleep_list = <<>> \/ ~(tm.twake[Head(tm.sleep_list)] < tm.now)
    THEN [k |-> k, tm |-> tm]
    ELSE TimerPopEarlier(condition_broadcast(k, al_cond(Head(tm.sleep_list))),
                         [tm EXCEPT !.sleep_list = Tail(tm.sleep_list)])

\* the loop of handle_timer_interrupt
RECURSIVE TimerPop(_, _)
TimerPop(k, tm) ==
    IF tm.sleep_list = <<>> \/ ~(tm.twake[Head(tm.sleep_list)] <= tm.now)
    THEN [k |-> k, tm |-> tm]
    ELSE TimerPop(condition_broadcast(k, al_cond(Head(tm.sleep_list))),
                  [tm EXCEPT !.sleep_list = Tail(tm.sleep_list)])

\* handle_timer_interrupt()
handle_timer_interrupt(k, tm) ==
    IF tm.sleep_list = <<>> THEN [k |-> k, tm |-> tm]
    ELSE Only({ [k |-> r.k,
                 tm |-> IF r.tm.sleep_list # <<>>
                        THEN [r.tm EXCEPT
                                !.stcmp = r.tm.twake[Head(r.tm.sleep_list)]]
                        ELSE [r.tm EXCEPT !.stie = FALSE]]
                : r \in {TimerPop(k, tm)} })

\* timer_init, and alarm_init of every alarm, at time 0
InitAlarm ==
    /\ thrtab = InitK.thrtab
    /\ ready_list = InitK.ready_list
    /\ wait_list = InitK.wait_list
    /\ TP = InitK.TP
    /\ halted = InitK.halted
    /\ pc = [t \in Tids |-> PcRun]
    /\ tev = NoTev
    /\ timer = [sleep_list |-> <<>>, twake |-> [t \in Tids |-> 0],
                stcmp |-> UINT64_MAX, stie |-> FALSE, now |-> 0,
                op |-> "none", woken |-> <<>>]
    /\ fork = <<>>
    /\ vcall = <<>>
    /\ intr = <<>>
    /\ indirect = <<>>
    /\ CacheIdle
    /\ PipeIdle
    /\ LockIdle
    /\ SysIdle
    /\ MemIdle

nonAlarmVars == <<cacheVars, ktfsVars, pipeVars, lockVars, sysVars, memVars,
                  fork, vcall, intr, indirect>>

\* alarm_reset(al) of the running thread's alarm
AlarmReset ==
    /\ CanCall
    /\ timer.twake[TP] # timer.now
    /\ timer' = [timer EXCEPT !.twake[TP] = timer.now, !.op = "reset",
                              !.woken = <<>>]
    /\ UNCHANGED <<threadVars, nonAlarmVars>>

\* alarm_sleep(al, tcnt) of the running thread
AlarmSleep(tcnt) ==
    /\ CanCall
    /\ \E r \in {alarm_sleep(K, timer, tcnt)} :
          /\ SetK(r.k)
          /\ timer' = [r.tm EXCEPT !.op = "sleep", !.woken = <<>>]
          /\ pc' = IF r.wait
                   THEN [pc EXCEPT ![TP] = [at |-> "cw", next |-> "run",
                                            arg |-> 0]]
                   ELSE pc
    /\ UNCHANGED <<tev, nonAlarmVars>>

\* the timer interrupt: taken when STIE is set, the time has reached the
\* compare register and the running thread has interrupts enabled (it is
\* not between alarm_sleep's disable_interrupts and the switch)
TimerInterrupt ==
    /\ halted = "no"
    /\ timer.stie
    /\ timer.now >= timer.stcmp
    /\ pc[TP].at # "cw"
    /\ \E r \in {handle_timer_interrupt(K, timer)} :
          /\ SetK(r.k)
          /\ timer' = [r.tm EXCEPT !.op = "isr",
                          !.woken = SubSeq(timer.sleep_list, 1,
                                           Len(timer.sleep_list)
                                              - Len(r.tm.sleep_list))]
    /\ UNCHANGED <<pc, tev, nonAlarmVars>>

\* the time goes on
AlarmTick ==
    /\ timer.now < AlarmMaxTime
    /\ timer' = [timer EXCEPT !.now = timer.now + 1, !.op = "tick",
                              !.woken = <<>>]
    /\ UNCHANGED <<threadVars, nonAlarmVars>>

NextAlarm ==
    \/ Spawn(TRUE)
    \/ AlarmReset
    \/ \E tcnt \in AlarmCounts : AlarmSleep(tcnt)
    \/ Suspend
    \/ IdleYield
    \/ TimerInterrupt
    \/ AlarmTick

SpecAlarm == InitAlarm /\ [][NextAlarm]_vars

\* the sleep list is sorted by twake and names each alarm once
SleepListSorted ==
    /\ \A i, j \in 1..Len(timer.sleep_list) :
          i < j => /\ timer.twake[timer.sleep_list[i]]
                        <= timer.twake[timer.sleep_list[j]]
                   /\ timer.sleep_list[i] # timer.sleep_list[j]

\* alarms on the list keep their order and their wake times; an alarm that
\* is inserted goes behind every alarm whose twake is not later than its own
SleepListStable ==
    /\ \A a, b \in Tids :
          (Before(timer.sleep_list, a, b) /\ InList(a, timer'.sleep_list)
             /\ InList(b, timer'.sleep_list))
          => /\ Before(timer'.sleep_list, a, b)
             /\ timer'.twake[a] = timer.twake[a]
             /\ timer'.twake[b] = timer.twake[b]
    /\ \A a, b \in Tids :
          (InList(a, timer.sleep_list) /\ ~InList(b, timer.sleep_list)
             /\ Before(timer'.sleep_list, b, a))
          => timer'.twake[b] < timer'.twake[a]

\* of two sleepers the one in front on the sleep list is never put on the
\* ready list after the other
SleepersWokenInOrder ==
    \A a, b \in Tids :
       Before(timer.sleep_list, a, b) =>
          \/ Before(timer'.sleep_list, a, b)
          \/ /\ InList(a, ready_list')
             /\ ~InList(a, timer'.sleep_list)
             /\ \/ InList(b, timer'.sleep_list)
                \/ Before(ready_list', a, b)

\* C31: after any sequence of alarm_sleep insertions and timer interrupts
\* the sleep list is sorted by twake ascending, alarms with equal twake stay
\* in insertion order, and sleepers are made READY in list order.
C31_AlarmOrder ==
    /\ []SleepListSorted
    /\ [][SleepListStable /\ SleepersWokenInOrder]_vars

\* the timer interrupt has woken two sleepers with the same twake at once
\* and left a later one on the list
C31_Witness ==
    /\ timer.op = "isr"
    /\ Len(timer.woken) = 2
    /\ timer.twake[timer.woken[1]] = timer.twake[timer.woken[2]]
    /\ Before(ready_list, timer.woken[1], timer.woken[2])
    /\ timer.sleep_list # <<>>

\* C32: whenever the sleep list is not empty and neither the insertion of
\* alarm_sleep nor the timer interrupt handler is in progress, the compare
\* register last written by set_stcmp equals the twake of the head of the
\* sleep list, also right after an alarm that wakes earlier was inserted in
\* front of the old head.
C32_CompareIsHead ==
    timer.sleep_list # <<>> =>
        timer.stcmp = timer.twake[Head(timer.sleep_list)]

\* alarm_sleep has just put the caller's alarm in front of an alarm that
\* wakes later
C32_Witness ==
    /\ timer.op = "sleep"
    /\ Len(timer.sleep_list) >= 2
    /\ timer.sleep_list[1] = TP
    /\ pc[TP].at = "cw"
    /\ timer.twake[TP] < timer.twake[timer.sleep_list[2]]
    /\ timer.stcmp = timer.twake[TP]

\* what holds when handle_timer_interrupt returns
TimerIsrReturn ==
    (timer'.op = "isr" /\ timer' # timer) =>
       /\ timer'.now = timer.now
       /\ \A i \in 1..Len(timer'.sleep_list) :
             timer'.twake[timer'.sleep_list[i]] > timer.now
       /\ \A i \in 1..Len(timer'.woken) :
             /\ thrtab'[timer'.woken[i]].state = "READY"
             /\ InList(timer'.woken[i], ready_list')
             /\ timer.twake[timer'.woken[i]] <= timer.now
       /\ \A t \in Tids :
             InList(t, timer.sleep_list) =>
                \/ InList(t, timer'.sleep_list)
                \/ InList(t, timer'.woken)
       /\ timer'.stie <=> timer'.sleep_list # <<>>

\* a thread that sleeps in alarm_sleep stops waiting only when the time has
\* reached the twake of its alarm
NoEarlyWake ==
    \A t \in Tids :
       (/\ thrtab[t].state = "WAITING"
        /\ thrtab[t].wait_cond = al_cond(t)
        /\ thrtab'[t].state # "WAITING")
       => timer.twake[t] <= timer.now

\* C33: when handle_timer_interrupt returns having read the time now, no
\* alarm with twake <= now is left on the sleep list and every thread that
\* waited on a removed alarm is READY; no thread that sleeps in alarm_sleep
\* is made READY while the time is below its alarm's twake; the supervisor
\* timer interrupt is left disabled exactly when the sleep list became empty.
C33_TimerWakesDue ==
    [][TimerIsrReturn /\ NoEarlyWake]_vars

\* the handler has woken one sleeper and left one that is not due, with the
\* timer interrupt enabled and the compare register ahead of the time
C33_Witness ==
    /\ timer.op = "isr"
    /\ Len(timer.woken) = 1
    /\ timer.sleep_list # <<>>
    /\ timer.stie
    /\ timer.stcmp > timer.now
    /\ thrtab[timer.woken[1]].state = "READY"

(***************************************************************************)
(* memory.c: who owns a physical page.  mev.held is the set of pages that  *)
(* alloc_phys_pages has handed out and that have not been freed since.     *)
(***************************************************************************)
\* the chunks of the free list cover pairwise disjoint runs of pool pages
ChunksDisjoint ==
    /\ \A i \in 1..Len(free_chunk_list) :
          /\ free_chunk_list[i].pagecnt >= 1
          /\ PageRun(free_chunk_list[i].start, free_chunk_list[i].pagecnt)
                \subseteq PoolStart..(PoolStart + MemPool - 1)
    /\ \A i, j \in 1..Len(free_chunk_list) :
          i # j => PageRun(free_chunk_list[i].start, free_chunk_list[i].pagecnt)
                      \cap PageRun(free_chunk_list[j].start,
                                   free_chunk_list[j].pagecnt) = {}

\* no page is on the free list and held
FreeOrHeld == FreePages(free_chunk_list) \cap mev.held = {}

\* the free page count and the held pages add up to the pool
PageCountConstant ==
    free_phys_page_count(Mem) + Cardinality(mev.held) = MemPool

\* a step of alloc_phys_pages that returns a run returns pages of which none
\* was held before the step
AllocNotHeld ==
    (mev' # mev /\ mev'.op = "alloc" /\ mev'.pp # 0) =>
        /\ PageRun(mev'.pp, mev'.cnt) \cap mev.held = {}
        /\ PageRun(mev'.pp, mev'.cnt) \subseteq FreePages(free_chunk_list)

\* C34: physical page ownership.  For any sequence of alloc_phys_pages(n)
\* and free_phys_pages(p, n) in which every free returns pages obtained from
\* the allocator before, the free chunks never overlap each other, no page
\* is at the same time on the free list and held, alloc_phys_pages never
\* returns a page that is held, and free_phys_page_count plus the number of
\* held pages is constant.
C34_PageOwnership ==
    /\ [](ChunksDisjoint /\ FreeOrHeld /\ PageCountConstant)
    /\ [][AllocNotHeld]_vars

\* pages were freed in pieces, and an allocation then took pages out of a
\* freed chunk while other pages are still held
C34_Witness ==
    /\ mev.op = "alloc"
    /\ mev.pp # 0
    /\ Len(mev.free0) >= 2
    /\ mev.pp = mev.free0[1].start
    /\ mev.held \ PageRun(mev.pp, mev.cnt) # {}

(***************************************************************************)
(* memory.c: unmap_and_free_range called on page-aligned ranges of the     *)
(* active space, among them ranges that the kernel image's global 4 KiB    *)
(* leaves lie in.                                                          *)
(***************************************************************************)
\* the pages a range may have
UnmapMaxPages == 2

\* the virtual pages of the kernel image's level 0 table
KimgVmas == KimgVma..(KimgVma + PTE_CNT - 1)

\* the ranges unmap_and_free_range is called for: in the kernel image or in
\* user memory
UnmapRanges ==
    {r \in (KimgVmas \cup UmemVmas) \X (1..UnmapMaxPages) :
        PageRun(r[1], r[2]) \subseteq KimgVmas
           \/ PageRun(r[1], r[2]) \subseteq UmemVmas}

\* unmap_and_free_range(vp, size)
MUnmap(vma, pages) ==
    /\ MemCall
    /\ \E r \in {unmap_and_free_range(Mem, vma, pages)} :
          /\ ptes' = r.ptab
          /\ ram' = r.ram
          /\ free_chunk_list' = r.free
          /\ mev' = [op |-> "unmap", ok |-> TRUE, vma |-> vma, parent |-> satp,
                     child |-> 0, m0 |-> Mem, panic |-> r.panic,
                     n |-> mev.n + 1, pages |-> pages]
    /\ UNCHANGED <<satp, mspaces, nonMemVars>>

NextUnmap ==
    \/ \E vma \in UserVmas : MFault(vma)
    \/ \E r \in UnmapRanges : MUnmap(r[1], r[2])

SpecUnmap == InitMem /\ [][NextUnmap]_vars

\* the pages of the range whose 4 KiB leaf was valid and not global
UnmapDue ==
    {v \in PageRun(mev.vma, mev.pages) :
        /\ PTE_VALID(Leaf4K(mev.m0, satp, v))
        /\ ~PTE_GLOBAL(Leaf4K(mev.m0, satp, v))}

\* the frame of unmap_and_free_range: the due leaves are cleared and their
\* pages freed, every other leaf is as before and no other page is freed
UnmapFrame ==
    /\ \A v \in UnmapDue : Leaf4K(Mem, satp, v) = null_pte
    /\ \A v \in (KimgVmas \cup UmemVmas) \ UnmapDue :
          Leaf4K(Mem, satp, v) = Leaf4K(mev.m0, satp, v)
    /\ FreePages(free_chunk_list)
          = FreePages(mev.m0.free)
               \cup {Leaf4K(mev.m0, satp, v).ppn : v \in UnmapDue}

\* C35: the frame of unmap_and_free_range.  For every page-aligned range,
\* unmap_and_free_range(va, sz) frees and clears exactly the 4 KiB leaves of
\* the range that are valid and not global; every global leaf, every invalid
\* entry and every entry outside the range is left unchanged, and its page
\* is not returned to the free pool.
C35_UnmapFrame == mev.op = "unmap" => UnmapFrame

\* the calls on ranges of user memory only
NextUnmapUser ==
    \/ \E vma \in UserVmas : MFault(vma)
    \/ \E r \in {u \in UnmapRanges : u[1] \in UmemVmas} : MUnmap(r[1], r[2])

SpecUnmapUser == InitMem /\ [][NextUnmapUser]_vars

\* the frame on ranges of user memory, where the active space has no global
\* leaf
UnmapUserFrame == (mev.op = "unmap" /\ mev.vma \in UmemVmas) => UnmapFrame

\* a call on a range with a mapped user page and one that is not mapped
UnmapUserReached ==
    /\ mev.op = "unmap"
    /\ mev.pages = 2
    /\ Cardinality(UnmapDue) = 1
    /\ PageRun(mev.vma, mev.pages) \subseteq UmemVmas

(***************************************************************************)
(* ktfs.c: the file system lock around the entry points.  IOCTL_SETEND is  *)
(* modelled with its indirect branch; files end inside the index block     *)
(* that inode.indirect names (the double-indirect blocks are not reached). *)
(* The calls are made by the main thread, which holds no lock at entry.    *)
(***************************************************************************)
\* the file system calls made
LockKtfsMaxOps == 4

\* entries of an index block (128 in ktfs.c, scaled down)
KtfsIndPtrs == 2

\* the largest size SETEND is asked for
KtfsMaxSizeInd == (KTFS_NUM_DIRECT_DATA_BLOCKS + KtfsIndPtrs) * KTFS_BLKSZ

\* zero_block(blk_no); its result is ignored by the callers
zero_block(fs, blk_no) ==
    Only({ IF g.rc # "OK" THEN FsOf(g)
           ELSE cache_release_block([g.cache EXCEPT !.block[g.blk] = ZeroBlock],
                                    g.disk, g.blk, 1)
           : g \in {cache_get_block(fs.cache, fs.disk, DataPos(blk_no))} })

\* if (inode.indirect == 0) { ... } of the indirect branch: rc is ERR1 when
\* the function returns -1 there
SetendIndAlloc(fs, ind) ==
    IF ind # 0 THEN [fs |-> fs, ind |-> ind, rc |-> "OK"]
    ELSE Only({
           IF U32(f.idx - data_start_block) = Word - 1
           THEN [fs |-> f.fs, ind |-> Word - 1, rc |-> "ERR1"]
           ELSE [fs |-> zero_block(f.fs, U32(f.idx - data_start_block)),
                 ind |-> U32(f.idx - data_start_block), rc |-> "OK"]
           : f \in {find_free_data_block(fs)} })

\* the indirect branch of the loop body: unlock tells whether the return
\* path calls lock_release
SetendIndirect(fs, inode, ind, b, data_blk) ==
    Only({
      IF a.rc # "OK"
      THEN [fs |-> a.fs, inode |-> inode, ind |-> a.ind, rc |-> a.rc,
            unlock |-> FALSE]
      ELSE Only({
             IF g.rc # "OK"
             THEN [fs |-> FsOf(g), inode |-> inode, ind |-> a.ind, rc |-> g.rc,
                   unlock |-> TRUE]
             ELSE [fs |-> cache_release_block(
                            [g.cache EXCEPT
                               !.block[g.blk][b - KTFS_NUM_DIRECT_DATA_BLOCKS + 1]
                                  = data_blk],
                            g.disk, g.blk, 1),
                   inode |-> inode, ind |-> a.ind, rc |-> "OK", unlock |-> TRUE]
             : g \in {cache_get_block(a.fs.cache, a.fs.disk, DataPos(a.ind))} })
      : a \in {SetendIndAlloc(fs, ind)} })

\* the body of the for loop of IOCTL_SETEND for file block b
SetendBody(fs, inode, ind, b) ==
    Only({
      IF U32(f.idx - data_start_block) = Word - 1
      THEN [fs |-> f.fs, inode |-> inode, ind |-> ind, rc |-> "ERR1",
            unlock |-> TRUE]
      ELSE Only({
             IF s.rc # "OK" THEN [s EXCEPT !.unlock = TRUE]
             ELSE IF b < KTFS_NUM_DIRECT_DATA_BLOCKS
             THEN [s EXCEPT !.inode.block[b + 1] = U32(f.idx - data_start_block)]
             ELSE SetendIndirect(s.fs, inode, ind, b,
                                 U32(f.idx - data_start_block))
             : s \in {[fs |-> zero_block(f.fs, U32(f.idx - data_start_block)),
                       inode |-> inode, ind |-> ind,
                       rc |-> cache_get_block(
                                 f.fs.cache, f.fs.disk,
                                 DataPos(U32(f.idx - data_start_block))).rc,
                       unlock |-> TRUE]} })
      : f \in {find_free_data_block(fs)} })

\* the for loop of IOCTL_SETEND from file block b on
RECURSIVE SetendLoopInd(_, _, _, _, _)
SetendLoopInd(fs, inode, ind, b, new_blocks) ==
    IF b >= new_blocks
    THEN [fs |-> fs, inode |-> inode, ind |-> ind, rc |-> "OK", unlock |-> TRUE]
    ELSE Only({ IF s.rc # "OK" THEN s
                ELSE SetendLoopInd(s.fs, s.inode, s.ind, b + 1, new_blocks)
                : s \in {SetendBody(fs, inode, ind, b)} })

\* ktfs_cntl(io, IOCTL_SETEND, &new_size) between lock_acquire and the
\* return: inds is the indirect field of every inode
ktfs_cntl(fs, of, inds, fd, new_size) ==
    Only({
      IF g.rc # "OK"
      THEN [fs |-> g.fs, of |-> of, inds |-> inds, rc |-> g.rc, unlock |-> TRUE]
      ELSE IF new_size < g.inode.size \/ new_size > KtfsMaxSizeInd
      THEN [fs |-> g.fs, of |-> of, inds |-> inds, rc |-> "EINVAL",
            unlock |-> TRUE]
      ELSE Only({
             IF l.rc # "OK"
             THEN [fs |-> l.fs, of |-> of, inds |-> inds, rc |-> l.rc,
                   unlock |-> l.unlock]
             ELSE [fs |-> put_inode(l.fs, of[fd].inode,
                                    [l.inode EXCEPT !.size = new_size]).fs,
                   of |-> [of EXCEPT ![fd].fsize = new_size],
                   inds |-> [inds EXCEPT ![of[fd].inode] = l.ind],
                   rc |-> "OK", unlock |-> TRUE]
             : l \in {SetendLoopInd(g.fs, g.inode, inds[of[fd].inode],
                                    (g.inode.size + KTFS_BLKSZ - 1) \div KTFS_BLKSZ,
                                    (new_size + KTFS_BLKSZ - 1) \div KTFS_BLKSZ)} })
      : g \in {get_inode(fs, of[fd].inode, 0)} })

\* the image after a file was created and grown to its direct blocks
KtfsImageWithFile ==
    Only({ Only({ ktfs_setend(o.fs, o.of, o.fd,
                              KTFS_NUM_DIRECT_DATA_BLOCKS * KTFS_BLKSZ).fs.disk
                  : o \in {ktfs_open(c.fs, [i \in Fds |-> ClosedFile], 1)} })
           : c \in {ktfs_create(ktfs_mount(KtfsImage(1)), 1)} })

\* an image whose bitmap leaves the bits of the blocks in clear at 0
KtfsUnmark(image, clear) ==
    [image EXCEPT ![bitmap_start_block] =
        [i \in 1..KTFS_BLKSZ |->
            BitsValue({x \in 0..(KTFS_BLKSZ * ByteBits - 1) :
                          /\ Bit(image[bitmap_start_block][(x \div ByteBits) + 1],
                                 x % ByteBits) = 1
                          /\ x \notin clear},
                      (i - 1) * ByteBits, 0)]]

\* the bitmaps of the mounted images: every block of the superblock, bitmap
\* and inode regions marked, or the inode blocks not marked
KtfsUnmarked == {{}, inode_start_block..(data_start_block - 1)}

\* a mounted image, empty or with one file, whose bitmap is one of bitmaps,
\* and the file system lock free
KtfsLockStart(bitmaps) ==
    /\ \E image \in {KtfsImage(1), KtfsImageWithFile}, clear \in bitmaps :
         \E m \in {ktfs_mount(KtfsUnmark(image, clear))} :
            /\ cache = m.cache
            /\ disk = m.disk
    /\ open_files = [i \in Fds |-> ClosedFile]
    /\ kexpect = [i \in Fds |-> {}]
    /\ ksetend = [i \in Fds |-> FALSE]
    /\ kev = NoKev
    /\ kops = 0
    /\ pin = NULL
    /\ wrote = FALSE
    /\ shadow = <<>>
    /\ dirtied = {}
    /\ mru = <<>>
    /\ cev = NoEvent
    /\ thrtab = InitK.thrtab
    /\ ready_list = InitK.ready_list
    /\ wait_list = InitK.wait_list
    /\ TP = InitK.TP
    /\ halted = InitK.halted
    /\ pc = [t \in Tids |-> PcRun]
    /\ tev = NoTev
    /\ lock = lock_init
    /\ lheld = [t \in Tids |-> 0]
    /\ lev = NoLev
    /\ indirect = [i \in 0..(inode_block_count * inodes_per_block - 1) |-> 0]
    /\ fork = <<>>
    /\ vcall = <<>>
    /\ intr = <<>>
    /\ timer = <<>>
    /\ PipeIdle
    /\ SysIdle
    /\ MemIdle

InitKtfsLock == KtfsLockStart(KtfsUnmarked)

\* what a locked file system call leaves alone
nonKtfsLockVars == <<pin, wrote, shadow, dirtied, mru, cev, kexpect, threadVars,
                     pipeVars, lev, sysVars, memVars, fork, vcall, intr, timer>>

\* ktfs_lock after a call: lock_acquire at entry and, on a return path that
\* has one, lock_release
KtfsLockAfter(unlock) ==
    Only({ IF unlock THEN lock_release(a).p.lock ELSE a.p.lock
           : a \in {lock_acquire(LockCall)} })

\* an entry point returns by the path that leaves the file system as r
KtfsLockedDone(op, r, of, inds, unlock) ==
    /\ kops < LockKtfsMaxOps
    /\ kops' = kops + 1
    /\ cache' = r.fs.cache
    /\ disk' = r.fs.disk
    /\ open_files' = of
    /\ indirect' = inds
    /\ lock' = KtfsLockAfter(unlock)
    /\ lheld' = [lheld EXCEPT ![TP] = IF unlock THEN @ ELSE @ + 1]
    /\ ksetend' = ksetend
    /\ kev' = [NoKev EXCEPT !.op = op, !.err = r.rc]
    /\ UNCHANGED nonKtfsLockVars

LCreate(name) ==
    \E r \in {ktfs_create(Fs, name)} :
       KtfsLockedDone("create", r, open_files, indirect, TRUE)

LOpen(name) ==
    \E r \in {ktfs_open(Fs, open_files, name)} :
       KtfsLockedDone("open", r, r.of, indirect, TRUE)

LSetend(fd, new_size) ==
    /\ open_files[fd].in_use = 1
    /\ \E r \in {ktfs_cntl(Fs, open_files, indirect, fd, new_size)} :
          KtfsLockedDone("setend", r, r.of, r.inds, r.unlock)

NextKtfsLock ==
    \/ \E name \in Names : LCreate(name)
    \/ \E name \in Names : LOpen(name)
    \/ \E fd \in Fds, blocks \in 1..(KTFS_NUM_DIRECT_DATA_BLOCKS + KtfsIndPtrs) :
          LSetend(fd, blocks * KTFS_BLKSZ)

SpecKtfsLock == InitKtfsLock /\ [][NextKtfsLock]_vars

\* C36: locks released on every return path.  Each KTFS entry point returns,
\* on success and on every error path (the failures to allocate an index
\* block inside SETEND among them), with the file system lock held by the
\* calling thread no more times than at entry, so that the lock is free for
\* other threads once its holder has returned.
C36_LocksReleased ==
    kev.op # "none" => (lock.holder = NOTHR /\ lock.count = 0)

\* the calls on the images whose bitmap marks every block before the data
\* region
SpecKtfsLockMarked == KtfsLockStart({{}}) /\ [][NextKtfsLock]_vars

\* a SETEND has stored a block pointer in an index block and has returned
\* with the lock released
SetendIndirectReached ==
    /\ kev.op = "setend"
    /\ kev.err = "OK"
    /\ \E i \in DOMAIN indirect : indirect[i] # 0
    /\ lock.holder = NOTHR

(***************************************************************************)
(* ktfs.c: the root directory as it stands on the device between calls.    *)
(***************************************************************************)
\* the inode inode_num of the image d
DiskInode(d, inode_num) ==
    InodeOfCells(Cells(d[inode_start_block + (inode_num \div inodes_per_block)],
                       (inode_num % inodes_per_block) * KTFS_INOSZ, KTFS_INOSZ))

\* the number of entries of the root directory
DirCount(d) == DiskInode(d, root_directory_inode).size \div KTFS_DENSZ

\* the cells of entry e of the root directory, counted from 0
DirEntry(d, e) ==
    LET blk == DataPos(DiskInode(d, root_directory_inode)
                          .block[(e \div dentries_per_blk) + 1])
    IN  IF blk \in DOMAIN d
        THEN Cells(d[blk], (e % dentries_per_blk) * KTFS_DENSZ, KTFS_DENSZ)
        ELSE [i \in 1..KTFS_DENSZ |-> 0]

\* the inode number entry e carries
DirInode(d, e) == DirEntry(d, e)[KTFS_DENSZ]

\* no entry carries the inode number of the root directory
RootInodeNotHandedOut ==
    \A e \in 0..(DirCount(disk) - 1) : DirInode(disk, e) # root_directory_inode

\* distinct entries carry distinct inode numbers
DirInodesDistinct ==
    \A e1, e2 \in 0..(DirCount(disk) - 1) :
       e1 # e2 => DirInode(disk, e1) # DirInode(disk, e2)

\* C37: inode uniqueness.  After any sequence of ktfs_create and SETEND
\* calls, distinct entries of the root directory carry distinct inode
\* numbers, and none carries the inode number of the root directory; two
\* ktfs_create calls in a row do not get the same inode from
\* find_free_inode.
C37_InodeUnique == RootInodeNotHandedOut /\ DirInodesDistinct

(***************************************************************************)
(* ktfs.c: the allocation of data blocks by ktfs_create and IOCTL_SETEND,  *)
(* on images whose first root directory block is empty or full.            *)
(***************************************************************************)
\* a mounted image whose root directory has no entry or a full block of
\* entries, written by ktfs_create; no file is open
InitKtfsGrow ==
    /\ \E rflags \in {0, 1}, fill \in {0, dentries_per_blk} :
         \E f \in {DirFill(ktfs_mount(KtfsImage(rflags)), fill)} :
            /\ cache = f.cache
            /\ disk = f.disk
    /\ open_files = [i \in Fds |-> ClosedFile]
    /\ kexpect = [i \in Fds |-> {}]
    /\ ksetend = [i \in Fds |-> FALSE]
    /\ kev = NoKev
    /\ kops = 0
    /\ pin = NULL
    /\ wrote = FALSE
    /\ shadow = <<>>
    /\ dirtied = {}
    /\ mru = <<>>
    /\ cev = NoEvent
    /\ ThreadIdle
    /\ PipeIdle
    /\ ExtIdle

NextKtfsGrow ==
    \/ \E name \in Names : KCreate(name)
    \/ \E name \in Names : KOpen(name)
    \/ \E fd \in Fds : KClose(fd)
    \/ \E fd \in Fds, blocks \in 1..KTFS_NUM_DIRECT_DATA_BLOCKS :
          KSetend(fd, blocks * KTFS_BLKSZ)

SpecKtfsGrow == InitKtfsGrow /\ [][NextKtfsGrow]_vars

\* the inodes in use: the root directory's and those the entries carry
LiveInodes(d) ==
    {root_directory_inode} \cup {DirInode(d, e) : e \in 0..(DirCount(d) - 1)}

\* the direct slots of an inode that its size covers; the first block of the
\* root directory is there from the start
LiveSlots(d, ino) ==
    {s \in 0..(KTFS_NUM_DIRECT_DATA_BLOCKS - 1) :
        \/ s * KTFS_BLKSZ < DiskInode(d, ino).size
        \/ (ino = root_directory_inode /\ s = 0)}

\* the block pointers in use, as <<inode, slot>>
LivePointers(d) ==
    UNION {{<<ino, s>> : s \in LiveSlots(d, ino)} : ino \in LiveInodes(d)}

\* the device block a pointer names
PointedBlock(d, p) == DataPos(DiskInode(d, p[1]).block[p[2] + 1])

\* no block is named by two pointers
PointersDistinct ==
    \A p, q \in LivePointers(disk) :
       p # q => PointedBlock(disk, p) # PointedBlock(disk, q)

\* the block a pointer names is the block whose bit is set in the bitmap
PointedBlocksMarked ==
    \A p \in LivePointers(disk) :
       LET x == PointedBlock(disk, p)
       IN  Bit(disk[bitmap_start_block][(x \div ByteBits) + 1], x % ByteBits) = 1

\* C38: data-block uniqueness.  After any sequence of ktfs_create and SETEND
\* calls no block of the device is named by two different block pointers
\* (of the inodes of the files and of the root directory), and the block a
\* pointer names is the block whose bitmap bit find_free_data_block set:
\* ktfs_create and ktfs_cntl turn the index into a block number in the same
\* way.
C38_BlockUnique == PointersDistinct /\ PointedBlocksMarked


(***************************************************************************)
(* thread.c: the idle thread and the target of running_thread_suspend.     *)
(***************************************************************************)
\* the idle thread runs, or is READY and on the ready list
IdleRunnable ==
    \/ TP = IDLE_TID /\ thrtab[IDLE_TID].state = "RUNNING"
    \/ thrtab[IDLE_TID].state = "READY" /\ InList(IDLE_TID, ready_list)

\* the scheduler's state when running_thread_suspend calls tlremove: the
\* caller, if RUNNING, is READY and at the tail of the ready list; in
\* thread_exit the caller is EXITED and its parent has been woken
BeforeSwitch(op) ==
    IF op = "exit"
    THEN Only({ IF e.thrtab[e.TP].parent # NOTHR
                THEN condition_broadcast(e, child_exit(e.TP))
                ELSE e
                : e \in {set_thread_state(K, TP, "EXITED")} })
    ELSE IF thrtab[TP].state = "RUNNING"
    THEN [K EXCEPT !.thrtab[TP].state = "READY",
                   !.ready_list = tlinsert(@, TP)]
    ELSE K

\* a step that ends in running_thread_suspend
SuspendStep ==
    /\ tev' # tev \/ TP' # TP
    /\ tev'.op \in {"yield", "suspend", "exit"}
    /\ halted' = "no"

\* the thread switched to was READY and on the ready list, and a thread
\* other than idle found the ready list non-empty
SwitchToReady ==
    SuspendStep =>
       /\ TP # IDLE_TID => ready_list # <<>>
       /\ \A q \in {BeforeSwitch(tev'.op)} :
             /\ InList(TP', q.ready_list)
             /\ q.thrtab[TP'].state = "READY"

\* C40: the scheduler always has a runnable target.  In every state the
\* idle thread is the RUNNING thread or is READY and on the ready list,
\* never WAITING or EXITED; so a thread other than idle that suspends finds
\* the ready list non-empty, and the thread running_thread_suspend switches
\* to was READY and on the ready list when tlremove was called.
C40_RunnableTarget == [](IdleRunnable) /\ [][SwitchToReady]_vars

\* the only thread besides idle has gone to wait, and idle was taken from
\* the ready list
C40_Witness ==
    /\ tev.op = "suspend"
    /\ tev.t # IDLE_TID
    /\ thrtab[tev.t].state = "WAITING"
    /\ TP = IDLE_TID
    /\ thrtab[IDLE_TID].state = "RUNNING"
    /\ ready_list = <<>>

====
